---- MODULE Spec2Model ----
(***************************************************************************)
(* Model of l5x/sfc.py: construction of the SFC graph (node registries,    *)
(* adjacency maps, immediate-neighbour traversal, wiring, final sort), the *)
(* preset loader, the lookups by ID and by operand number, the text of     *)
(* Steps and Transitions and the action grouping; and of l5x/excel.py and  *)
(* Program.create_tags_from_excel: the creation of tags from a sheet.      *)
(*                                                                         *)
(* Python strings are sequences of one-character strings, so that int(),   *)
(* re.findall and the decimal form of an integer are computed and not      *)
(* assumed.  Python's None is the one-element sequence <<"None">>, which   *)
(* no character sequence equals.  An optional integer is a set with at     *)
(* most one element: {} is None (or "int() raised"), {n} is the value n.   *)
(* An object (Step, Transition) is the index of the element it wraps in    *)
(* the document's list of elements of that tag; object identity is index   *)
(* equality.                                                               *)
(***************************************************************************)
EXTENDS Integers, Sequences, FiniteSets, TLC

VARIABLES
    chart,            \* the input element tree (never changes)
    pc,               \* position inside SFC.__init__ / after it
    steps,            \* self._steps        : dict ID -> Step object
    transitions,      \* self._transitions  : dict ID -> Transition object
    branches,         \* self._branches     : dict ID -> Branch
    leg_to_branch,    \* self._leg_to_branch: dict leg ID -> branch ID
    adj,              \* forward adjacency of _build_relations
    radj,             \* reverse adjacency of _build_relations
    si,               \* number of entries of self._steps already resolved
    incoming_objs,    \* Step._incoming_objs,        per Step object
    outgoing_objs,    \* Step._outgoing_objs,        per Step object
    from_steps_objs,  \* Transition._from_steps_objs, per Transition object
    to_steps_objs,    \* Transition._to_steps_objs,   per Transition object
    ret,              \* the last lookup call and what it returned
    program_tags,     \* the program_tags_element argument (never changes)
    preset,           \* Step.preset, per Step object
    view,             \* the last derived view read and what it returned
    xlsx,             \* the Excel file and whether pandas is installed (never changes)
    tags_element,     \* the Tags element that create_tags_from_excel fills
    excel,            \* the create_tags_from_excel call and how it ended
    trav              \* one traversal of find_immediate_transitions, iteration by iteration

vars == <<chart, pc, steps, transitions, branches, leg_to_branch, adj, radj, si,
          incoming_objs, outgoing_objs, from_steps_objs, to_steps_objs, ret,
          program_tags, preset, view, xlsx, tags_element, excel, trav>>

-----------------------------------------------------------------------------
(* Bounds of the model *)

\* longest DirectedLink list of a chart of the topology and kind families
MaxLinks == 2
\* longest DirectedLink list of a chart of the fan family
MaxFanLinks == 3
\* longest operand label
MaxLabelLen == 3
\* most Step (Transition) elements of a chart of the ID family
MaxIdEls == 2
\* most Tag elements of a tag source
MaxTags == 2
\* number of Steps of a chart of the group family
MaxGroupSteps == 3
\* most rows of a sheet
MaxRows == 2
\* longest DirectedLink list of a chart of the permutation family
MaxPermLinks == 3
\* longest DirectedLink list of a chart of the loop and shared-ID families
MaxLoopLinks == 3
\* most IDs that one traversal may put in its queue
MaxVisits == 8

-----------------------------------------------------------------------------
(* Python values *)

None == <<"None">>

\* a missing object reference (dict.get() returning None); objects are >= 1
NoObj == 0

DigitChars == {"0", "1", "2", "3", "4", "5", "6", "7", "8", "9"}

DigitVal(c) ==
    CASE c = "0" -> 0 [] c = "1" -> 1 [] c = "2" -> 2 [] c = "3" -> 3
      [] c = "4" -> 4 [] c = "5" -> 5 [] c = "6" -> 6 [] c = "7" -> 7
      [] c = "8" -> 8 [] c = "9" -> 9

DigitChar(d) ==
    CASE d = 0 -> "0" [] d = 1 -> "1" [] d = 2 -> "2" [] d = 3 -> "3"
      [] d = 4 -> "4" [] d = 5 -> "5" [] d = 6 -> "6" [] d = 7 -> "7"
      [] d = 8 -> "8" [] d = 9 -> "9"

IsDigits(s) == \A i \in 1..Len(s) : s[i] \in DigitChars

\* value of a digit string read left to right (the empty string gives 0)
RECURSIVE DigitsValue(_, _)
DigitsValue(s, acc) ==
    IF s = <<>> THEN acc
    ELSE DigitsValue(Tail(s), acc * 10 + DigitVal(Head(s)))

\* int(x) for a str of the alphabet used here (digits and letters): the value
\* of a non-empty all-digit string; {} stands for ValueError (and TypeError
\* for None).
PyIntStr(s) ==
    IF s # None /\ s # <<>> /\ IsDigits(s) THEN {DigitsValue(s, 0)} ELSE {}

\* str(n) for n >= 0
RECURSIVE PyStr(_)
PyStr(n) ==
    IF n < 10 THEN <<DigitChar(n)>>
    ELSE Append(PyStr(n \div 10), DigitChar(n % 10))

\* int(operand_num) of the lookups: the argument is an int, a str or None
PyInt(arg) ==
    CASE arg.t = "int" -> {arg.i}
      [] arg.t = "str" -> PyIntStr(arg.s)
      [] OTHER -> {}

\* re.findall("\d+", op): the maximal digit runs, left to right
RECURSIVE FindallDigits(_, _, _)
FindallDigits(s, run, out) ==
    IF s = <<>> THEN (IF run = <<>> THEN out ELSE Append(out, run))
    ELSE IF Head(s) \in DigitChars
         THEN FindallDigits(Tail(s), Append(run, Head(s)), out)
         ELSE FindallDigits(Tail(s), <<>>,
                            IF run = <<>> THEN out ELSE Append(out, run))

\* int_operand taking the last digit run instead of the first
IntOperandLastRun(op) ==
    IF op = None THEN {}
    ELSE LET matches == FindallDigits(op, <<>>, <<>>)
         IN  IF matches # <<>> THEN PyIntStr(matches[Len(matches)]) ELSE {}

\* Step.int_operand / Transition.int_operand on the Operand attribute
IntOperand(op) ==
    IF op = None THEN {}
    ELSE LET matches == FindallDigits(op, <<>>, <<>>)
         IN  IF matches # <<>> THEN PyIntStr(matches[1]) ELSE {}

-----------------------------------------------------------------------------
(* dict: a sequence of [k, v] entries in insertion order *)

DictKeys(d) == {d[i].k : i \in DOMAIN d}

DictHas(d, key) == \E i \in DOMAIN d : d[i].k = key

DictIdx(d, key) == CHOOSE i \in DOMAIN d : d[i].k = key

\* an assignment that keeps the value of a present key
DictPutKeepFirst(d, key, val) ==
    IF \E i \in DOMAIN d : d[i].k = key THEN d ELSE Append(d, [k |-> key, v |-> val])

\* d[key] = val: a present key keeps its place and gets the new value
DictPut(d, key, val) ==
    IF DictHas(d, key) THEN [d EXCEPT ![DictIdx(d, key)].v = val]
    ELSE Append(d, [k |-> key, v |-> val])

\* d.get(key) for a dict of objects
DictGet(d, key) == IF DictHas(d, key) THEN d[DictIdx(d, key)].v ELSE NoObj

\* list(d.values())
DictValues(d) == [i \in DOMAIN d |-> d[i].v]

\* adjacency dict: a function ID -> list of IDs; adj.get(k, [])
AdjGet(A, key) == IF key \in DOMAIN A THEN A[key] ELSE <<>>

\* A.setdefault(key, []).append(val)
AdjAdd(A, key, val) ==
    IF key \in DOMAIN A THEN [A EXCEPT ![key] = Append(@, val)]
    ELSE A @@ (key :> <<val>>)

EmptyAdj == [x \in {} |-> <<>>]

-----------------------------------------------------------------------------
(* The input charts.  A chart is the element tree reduced to what sfc.py    *)
(* reads: per tag the elements in document order with their attributes.    *)

id1 == <<"1">>
id2 == <<"2">>
id3 == <<"3">>
id4 == <<"4">>
id5 == <<"5">>
id6 == <<"6">>
id7 == <<"7">>
id9 == <<"9">>

\* BranchFlow values; NoFlow is the attribute being absent
NoFlow == "<absent>"
FlowValues ==
    {"Diverge", "diverge", "DIVERGE", "diVerge", "Divergent", "Converge", "", NoFlow}

\* the characters of a BranchFlow value; br.flow or '' is '' for None
FlowChars(f) ==
    CASE f = "Diverge" -> <<"D", "i", "v", "e", "r", "g", "e">>
      [] f = "diverge" -> <<"d", "i", "v", "e", "r", "g", "e">>
      [] f = "DIVERGE" -> <<"D", "I", "V", "E", "R", "G", "E">>
      [] f = "diVerge" -> <<"d", "i", "V", "e", "r", "g", "e">>
      [] f = "Divergent" -> <<"D", "i", "v", "e", "r", "g", "e", "n", "t">>
      [] f = "Converge" -> <<"C", "o", "n", "v", "e", "r", "g", "e">>
      [] OTHER -> <<>>

\* str.lower() of one letter of the BranchFlow values
LowerChar(c) ==
    CASE c = "C" -> "c" [] c = "D" -> "d" [] c = "E" -> "e" [] c = "G" -> "g"
      [] c = "I" -> "i" [] c = "R" -> "r" [] c = "V" -> "v"
      [] OTHER -> c

\* a comparison that minds the letter case
FlowLowerCaseSensitive(f) == FlowChars(f)

\* (br.flow or '').lower()
FlowLower(f) == [i \in DOMAIN FlowChars(f) |-> LowerChar(FlowChars(f)[i])]

DivergeText == <<"d", "i", "v", "e", "r", "g", "e">>

NodeEl(id, op) == [ID |-> id, Operand |-> op]
BranchEl(id, flow, legs) == [ID |-> id, BranchFlow |-> flow, legs |-> legs]
LinkEl(f, t) == [FromID |-> f, ToID |-> t]

\* the sequences of length at most k over the set S
RECURSIVE SeqsUpTo(_, _)
SeqsUpTo(S, k) ==
    IF k = 0 THEN {<<>>}
    ELSE LET P == SeqsUpTo(S, k - 1)
         IN  P \cup {Append(p, x) : p \in {q \in P : Len(q) = k - 1}, x \in S}

\* the strictly increasing index sequences of length at most k over 1..n
RECURSIVE IncSeqs(_, _)
IncSeqs(n, k) ==
    IF k = 0 THEN {<<>>}
    ELSE LET P == IncSeqs(n, k - 1)
             L == {q \in P : Len(q) = k - 1}
         IN  P \cup UNION {{Append(p, x) :
                              x \in ((IF p = <<>> THEN 0 ELSE p[Len(p)]) + 1)..n}
                           : p \in L}

\* every link from an ID of fs to a different ID of ts, in a fixed order
PairSeq(fs, ts) ==
    LET n == Len(ts)
        all == [k \in 1..(Len(fs) * n) |->
                   LinkEl(fs[((k - 1) \div n) + 1], ts[((k - 1) % n) + 1])]
    IN  SelectSeq(all, LAMBDA l : l.FromID # l.ToID)

\* the DirectedLink lists of at most k different links of pairs
LinkLists(pairs, k) ==
    {[i \in 1..Len(p) |-> pairs[p[i]]] : p \in IncSeqs(Len(pairs), k)}

Chart(S, T, B, L) == [steps |-> S, transitions |-> T, branches |-> B, links |-> L]

PlainEls(ids) == [i \in 1..Len(ids) |-> NodeEl(ids[i], None)]

\* two Steps, one Transition, one Branch with one Leg, any links among them
TopoIds == <<id1, id2, id3, id5, id6>>
TopoCharts ==
    {Chart(PlainEls(<<id1, id2>>), PlainEls(<<id3>>),
           <<BranchEl(id5, f, <<id6>>)>>, L) :
        f \in {"Diverge", "Converge"}, L \in LinkLists(PairSeq(TopoIds, TopoIds), MaxLinks)}

\* one Step, two Transitions, one Branch with two Legs and any BranchFlow
FanCharts ==
    {Chart(PlainEls(<<id1>>), PlainEls(<<id3, id4>>),
           <<BranchEl(id5, f, <<id6, id7>>)>>, L) :
        f \in FlowValues,
        L \in LinkLists(PairSeq(<<id1, id6, id7, id3>>, <<id5, id3, id4, id1>>),
                        MaxFanLinks)}

\* IDs shared between kinds (Transition "2" is also a Step, Branch "3" also a
\* Transition, Leg "1" also a Step) and an ID ("9") that no element carries
KindIds == <<id1, id2, id3, id4, id9>>
KindCharts ==
    {Chart(PlainEls(<<id1, id2>>), PlainEls(<<id2, id3>>), B, L) :
        B \in {<<>>, <<BranchEl(id3, "Diverge", <<id4>>)>>,
               <<BranchEl(id4, "Diverge", <<id1>>)>>},
        L \in LinkLists(PairSeq(KindIds, KindIds), MaxLinks)}

\* IDs that are missing, repeated, not numeric, out of order or numerically
\* equal, on the Step side or on the Transition side; every Step element is
\* linked to every Transition element and back
IdStepIds == {id2, id1, <<"0", "1">>, <<"a">>, None}
IdTransIds == {id4, id3, <<"0", "3">>, <<"b">>, None}
LinksFull(S, T) ==
    LET nt == Len(T)
    IN  [k \in 1..(2 * Len(S) * nt) |->
            LET p == (k - 1) \div 2
                s == S[(p \div nt) + 1].ID
                t == T[(p % nt) + 1].ID
            IN  IF k % 2 = 1 THEN LinkEl(s, t) ELSE LinkEl(t, s)]
IdChart(S, T) ==
    Chart(PlainEls(S), PlainEls(T), <<>>, LinksFull(PlainEls(S), PlainEls(T)))
IdCharts ==
    {IdChart(S, T) : S \in SeqsUpTo(IdStepIds, MaxIdEls), T \in {<<id3>>, <<id4, id3>>}}
    \cup {IdChart(S, T) : S \in {<<id2>>, <<id2, id1>>}, T \in SeqsUpTo(IdTransIds, MaxIdEls)}

\* operand labels: two Steps and two Transitions, one of each carrying any
\* label and the other one a label of OtherLabels, in both orders
LabelChars == {"S", "0", "8"}
Labels == SeqsUpTo(LabelChars, MaxLabelLen) \cup {None}
OtherLabels == {None, <<"8">>, <<"0", "8">>, <<"S">>}
OperandCharts ==
    {Chart(<<NodeEl(id1, a), NodeEl(id2, b)>>,
           <<NodeEl(id3, b), NodeEl(id4, a)>>, <<>>, <<LinkEl(id1, id3)>>) :
        a \in Labels, b \in OtherLabels}

\* tag sources: two Steps with any of the PresetLabels as operand, wired to
\* two Transitions, and the Tag elements of the source drawn from TagSet
S1 == <<"S", "1">>
S2 == <<"S", "2">>
PresetLabels == {None, <<>>, S1, S2, <<"S", "'">>}
PresetCharts ==
    {Chart(<<NodeEl(id1, a), NodeEl(id2, b)>>, PlainEls(<<id3, id4>>), <<>>,
           <<LinkEl(id1, id4), LinkEl(id1, id3), LinkEl(id3, id2)>>) :
        a \in PresetLabels, b \in PresetLabels}

MemberEl(name, value) == [Name |-> name, Value |-> value]
TagEl(name, members) == [Name |-> name, members |-> members]
TagSet ==
    {TagEl(S1, <<MemberEl("PRE", <<"5", "0", "0">>)>>),
     TagEl(S1, <<MemberEl("ACC", <<"3">>), MemberEl("PRE", <<"-", "5">>)>>),
     TagEl(S2, <<MemberEl("PRE", <<" ", "0", "7">>)>>),
     TagEl(S2, <<MemberEl("PRE", <<"x">>)>>),
     TagEl(S2, <<MemberEl("PRE", None)>>),
     TagEl(S2, <<MemberEl("ACC", <<"3">>)>>),
     TagEl(<<>>, <<MemberEl("PRE", <<>>)>>),
     TagEl(None, <<MemberEl("PRE", <<"9">>)>>)}
TagSource(tags) == [given |-> TRUE, tags |-> tags]

\* text: Line elements with CDATA child and own text, Action elements with
\* and without Body and STContent, Condition elements likewise
LineEl(cdata, text) == [cdata |-> cdata, text |-> text]
ActionEl(body, stcontent, lines) ==
    [body |-> body, stcontent |-> stcontent, lines |-> lines]
ConditionEl(present, stcontent, lines) ==
    [present |-> present, stcontent |-> stcontent, lines |-> lines]
StepEl(id, acts) == [ID |-> id, Operand |-> None, Action |-> acts]
TransEl(id, cond) == [ID |-> id, Operand |-> None, Condition |-> cond]

TextA == LineEl(None, <<"a">>)
TextB == LineEl(None, <<"b">>)
ActionLists ==
    {<<>>,
     <<ActionEl(FALSE, FALSE, <<>>)>>,
     <<ActionEl(TRUE, FALSE, <<>>)>>,
     <<ActionEl(TRUE, TRUE, <<>>)>>,
     <<ActionEl(TRUE, TRUE, <<TextA>>)>>,
     <<ActionEl(TRUE, TRUE, <<LineEl(None, None), LineEl(<<" ", "a", " ">>, <<"b">>),
                              LineEl(<<>>, <<" ">>)>>)>>,
     <<ActionEl(TRUE, TRUE, <<TextA, TextB>>)>>,
     <<ActionEl(TRUE, TRUE, <<TextA>>), ActionEl(TRUE, FALSE, <<>>),
       ActionEl(TRUE, TRUE, <<TextB>>)>>,
     <<ActionEl(TRUE, TRUE, <<TextB>>)>>,
     <<ActionEl(TRUE, TRUE, <<LineEl(<<" ">>, <<"a">>)>>)>>,
     <<ActionEl(TRUE, TRUE, <<LineEl(None, <<"a", " ", "b">>)>>)>>}
Conditions ==
    {ConditionEl(FALSE, FALSE, <<>>),
     ConditionEl(TRUE, FALSE, <<>>),
     ConditionEl(TRUE, TRUE, <<>>),
     ConditionEl(TRUE, TRUE, <<LineEl(None, <<" ">>)>>),
     ConditionEl(TRUE, TRUE, <<TextA, LineEl(<<"b", " ">>, None)>>)}

\* two Steps with any action bodies and a Transition with any Condition
TextCharts ==
    {Chart(<<StepEl(id2, a), StepEl(id1, b)>>, <<TransEl(id3, c)>>, <<>>,
           <<LinkEl(id2, id3)>>) :
        a \in ActionLists, b \in ActionLists, c \in Conditions}

\* Steps of one action text (the first Step's written in two ways) with
\* any IDs, no links
GroupIds == {id2, <<"1", "0">>, <<"0", "2">>, <<"x">>, <<"²">>, <<>>, None}
GroupBodies == {<<ActionEl(TRUE, TRUE, <<TextA>>)>>,
                <<ActionEl(TRUE, TRUE, <<LineEl(<<"a", " ">>, None)>>)>>}
GroupCharts ==
    {Chart([i \in 1..MaxGroupSteps |->
               StepEl(ids[i], IF i = 1 THEN b ELSE <<ActionEl(TRUE, TRUE, <<TextA>>)>>)],
           <<>>, <<>>, <<>>) :
        ids \in [1..MaxGroupSteps -> GroupIds], b \in GroupBodies}

ViewCharts == TextCharts \cup GroupCharts

\* the linear chain of spec.md 8: Step 0 -> Transition 39 -> Step 2 ->
\* Transition 40, the elements and the DirectedLinks in every document order
id0 == <<"0">>
id39 == <<"3", "9">>
id40 == <<"4", "0">>
id47 == <<"4", "7">>
id48 == <<"4", "8">>
id61 == <<"6", "1">>
id62 == <<"6", "2">>
id63 == <<"6", "3">>
ChainLinks == {LinkEl(id0, id39), LinkEl(id39, id2), LinkEl(id2, id40)}
ChainCharts ==
    {Chart(PlainEls(S), PlainEls(T), <<>>, L) :
        S \in {<<id0, id2>>, <<id2, id0>>}, T \in {<<id39, id40>>, <<id40, id39>>},
        L \in {p \in SeqsUpTo(ChainLinks, 3) : {p[i] : i \in DOMAIN p} = ChainLinks}}

\* the branch diverge of spec.md 8: Transition 39 -> Branch 61 (Diverge, Legs
\* 62 and 63), Leg 62 -> Transition 47, Leg 63 -> Transition 48, the
\* DirectedLinks in every order; a Step 1 that may be linked to Transition
\* 39 and from Transition 47
DivergeLinks == {LinkEl(id39, id61), LinkEl(id62, id47), LinkEl(id63, id48)}
DivergeCharts ==
    {Chart(PlainEls(<<id1>>), PlainEls(T),
           <<BranchEl(id61, "Diverge", <<id62, id63>>)>>, X \o L) :
        T \in {<<id39, id47, id48>>, <<id48, id47, id39>>},
        X \in {<<>>, <<LinkEl(id1, id39)>>, <<LinkEl(id47, id1)>>,
               <<LinkEl(id47, id1), LinkEl(id1, id39)>>},
        L \in {p \in SeqsUpTo(DivergeLinks, 3) : {p[i] : i \in DOMAIN p} = DivergeLinks}}

ScenarioCharts == ChainCharts \cup DivergeCharts

\* elements without ID: a Step, a Transition, a Branch, a Leg (absent or
\* empty ID), a DirectedLink end; Step 1 -> Branch 5 -> Leg 6 -> Transition 3
\* -> Step 1 for the elements that have one
DropLinks ==
    <<LinkEl(None, id3), LinkEl(id1, id5), LinkEl(id6, id3), LinkEl(id1, None),
      LinkEl(id3, id1)>>
DropCharts ==
    {Chart(PlainEls(S), PlainEls(T), B, DropLinks) :
        S \in {<<id1>>, <<None, id1>>, <<id1, None>>, <<None>>},
        T \in {<<id3>>, <<None, id3>>, <<id3, None>>, <<None>>},
        B \in {<<BranchEl(id5, "Diverge", <<id6>>)>>,
               <<BranchEl(None, "Diverge", <<id6>>)>>,
               <<BranchEl(id5, "Diverge", <<None, id6>>)>>,
               <<BranchEl(id5, "Diverge", <<<<>>, id6, None>>)>>,
               <<BranchEl(None, "Converge", <<id6, None>>),
                 BranchEl(id5, "Diverge", <<None, id6>>)>>}}

\* elements of one kind with one ID: two Steps 1, two Transitions 3, two
\* Branches 5 that differ in BranchFlow and Legs
DupCharts ==
    {Chart(PlainEls(S), PlainEls(T), B,
           <<LinkEl(id1, id5), LinkEl(id6, id3), LinkEl(id7, id4), LinkEl(id3, id1)>>) :
        S \in {<<id1>>, <<id1, id1>>, <<id1, id2, id1>>},
        T \in {<<id3, id4>>, <<id3, id4, id3>>, <<id4, id3, id3>>},
        B \in {<<BranchEl(id5, "Diverge", <<id6, id7>>)>>,
               <<BranchEl(id5, "Converge", <<id7>>), BranchEl(id5, "Diverge", <<id6>>)>>,
               <<BranchEl(id5, "Diverge", <<id6>>), BranchEl(id5, "Diverge", <<id7>>)>>}}

\* two Branches 5 and 8 whose Legs are disjoint, shared (Leg 6 under both) or
\* repeated (Leg 6 twice under Branch 5)
id8 == <<"8">>
ShareCharts ==
    {Chart(PlainEls(<<id1>>), PlainEls(<<id3, id4>>),
           <<BranchEl(id5, f, l5), BranchEl(id8, "Converge", l8)>>,
           <<LinkEl(id1, id5), LinkEl(id6, id3), LinkEl(id8, id4), LinkEl(id3, id1)>>) :
        f \in {"Diverge", "Converge"},
        l5 \in {<<id6>>, <<id6, id6>>, <<id6, id7>>},
        l8 \in {<<id7>>, <<id6>>, <<id6, id7>>, <<id9>>}}

\* two Steps, two Transitions, one Branch with two Legs and links that close
\* cycles over Branch and Leg nodes (6 -> 5, 6 -> 7 -> 6), lead back to the
\* start (7 -> 1, 5 -> 1), pass another Step (1 -> 2 -> 4) or an ID that no
\* element carries (1 -> 9 -> 4), or repeat an edge of the Branch (5 -> 6)
LoopLinks ==
    <<LinkEl(id1, id5), LinkEl(id6, id5), LinkEl(id7, id1), LinkEl(id6, id3),
      LinkEl(id1, id2), LinkEl(id2, id4), LinkEl(id5, id1), LinkEl(id6, id7),
      LinkEl(id7, id6), LinkEl(id1, id9), LinkEl(id9, id4), LinkEl(id5, id6)>>
LoopCharts ==
    {Chart(PlainEls(<<id1, id2>>), PlainEls(<<id3, id4>>),
           <<BranchEl(id5, f, <<id6, id7>>)>>, L) :
        f \in {"Diverge", "Converge"}, L \in LinkLists(LoopLinks, MaxLoopLinks)}

\* the sequences of at most k different indices of 1..n, in any order
\* IDs shared between kinds as in KindCharts (Transition 2 = Step 2, Branch
\* 3 = Transition 3 with the Leg 4, or Branch 4 with the Leg 1 = Step 1)
SharedLinks ==
    <<LinkEl(id1, id2), LinkEl(id2, id1), LinkEl(id1, id3), LinkEl(id3, id2),
      LinkEl(id1, id4), LinkEl(id4, id3), LinkEl(id4, id2), LinkEl(id2, id3),
      LinkEl(id2, id4)>>
SharedCharts ==
    {Chart(PlainEls(<<id1, id2>>), PlainEls(<<id2, id3>>), B, L) :
        B \in {<<BranchEl(id3, "Diverge", <<id4>>)>>,
               <<BranchEl(id4, "Diverge", <<id1>>)>>},
        L \in LinkLists(SharedLinks, MaxLoopLinks)}

RECURSIVE InjSeqs(_, _)
InjSeqs(n, k) ==
    IF k = 0 THEN {<<>>}
    ELSE LET P == InjSeqs(n, k - 1)
             L == {q \in P : Len(q) = k - 1}
         IN  P \cup UNION {{Append(p, x) : x \in (1..n) \ {p[i] : i \in DOMAIN p}}
                           : p \in L}

\* charts that differ in document order only: Steps 1 and 2, Transitions 3
\* and 4, Branch 5 with the Legs 6 and 7 and Branch 8 with the Leg 9; the
\* links in any order, the Branches in either order, the Legs of Branch 5 in
\* either order
PermLinks ==
    <<LinkEl(id1, id5), LinkEl(id6, id3), LinkEl(id7, id4), LinkEl(id3, id2),
      LinkEl(id2, id9), LinkEl(id8, id4)>>
PermCharts ==
    {Chart(PlainEls(<<id1, id2>>), PlainEls(<<id3, id4>>),
           IF swap THEN <<BranchEl(id8, "Converge", <<id9>>), BranchEl(id5, f, legs)>>
           ELSE <<BranchEl(id5, f, legs), BranchEl(id8, "Converge", <<id9>>)>>,
           [i \in DOMAIN p |-> PermLinks[p[i]]]) :
        f \in {"Diverge", "Converge"}, legs \in {<<id6, id7>>, <<id7, id6>>},
        swap \in BOOLEAN, p \in InjSeqs(Len(PermLinks), MaxPermLinks)}

RegistryCharts ==
    IdCharts \cup DropCharts \cup DupCharts \cup ShareCharts \cup KindCharts

GraphCharts ==
    TopoCharts \cup FanCharts \cup KindCharts \cup IdCharts \cup ScenarioCharts
        \cup PermCharts
LookupCharts == OperandCharts \cup IdCharts

\* the arguments of get_step / get_transition
IdArgs == {[t |-> "str", i |-> 0, s |-> x] :
              x \in {id1, id2, id3, id4, id9, <<"0", "1">>, <<"0", "3">>, <<"a">>}}
          \cup {[t |-> "none", i |-> 0, s |-> <<>>], [t |-> "int", i |-> 1, s |-> <<>>]}

\* the arguments of get_step_by_operand / get_transition_by_operand
IntArg(n) == [t |-> "int", i |-> n, s |-> <<>>]
StrArg(s) == [t |-> "str", i |-> 0, s |-> s]
NoneArg == [t |-> "none", i |-> 0, s |-> <<>>]
LookupInts == {0, 8, 80, 7}
LookupArgs ==
    {IntArg(n) : n \in LookupInts} \cup {StrArg(PyStr(n)) : n \in LookupInts}
    \cup {StrArg(<<"0", "8">>), StrArg(<<"S", "8">>), StrArg(<<>>), NoneArg}

-----------------------------------------------------------------------------
(* State after `self.element = ...` (sfc.py:11-14), before the registries *)

NoCall == [op |-> "none", arg |-> NoneArg,
           out |-> [result |-> NoObj, raised |-> FALSE]]

\* program_tags_element=None; a tag source is [given |-> TRUE, tags |-> ...]
NoTags == [given |-> FALSE, tags |-> <<>>]

\* no derived view has been read
NoView == [op |-> "none", obj |-> NoObj, raised |-> FALSE, none |-> FALSE,
           lines |-> <<>>, groups |-> <<>>]

StepObjs == 1..Len(chart.steps)
TransObjs == 1..Len(chart.transitions)

\* no traversal is in progress
NoTrav == [active |-> FALSE, start |-> <<>>, forward |-> TRUE,
           q |-> <<>>, seen |-> {}, found |-> {}, enq |-> <<>>]

\* no Excel file is involved
NoSheet == [pandas |-> TRUE, columns |-> {}, rows |-> <<>>]
NoElement == [present |-> FALSE, tags |-> <<>>]
NoError == [type |-> "none", row |-> 0, msg |-> ""]
Idle == [pc |-> "idle", op |-> "none", err |-> NoError]

InitGraph ==
    /\ pc = "start"
    /\ steps = <<>>
    /\ transitions = <<>>
    /\ branches = <<>>
    /\ leg_to_branch = <<>>
    /\ adj = EmptyAdj
    /\ radj = EmptyAdj
    /\ si = 0
    /\ incoming_objs = [o \in StepObjs |-> <<>>]
    /\ outgoing_objs = [o \in StepObjs |-> <<>>]
    /\ from_steps_objs = [o \in TransObjs |-> <<>>]
    /\ to_steps_objs = [o \in TransObjs |-> <<>>]
    /\ ret = NoCall
    /\ preset = [o \in StepObjs |-> {}]
    /\ view = NoView
    /\ trav = NoTrav

InitState ==
    /\ InitGraph
    /\ xlsx = NoSheet
    /\ tags_element = NoElement
    /\ excel = Idle

\* SFC(element): no tag source
Init == chart \in GraphCharts /\ program_tags = NoTags /\ InitState

InitLookup == chart \in LookupCharts /\ program_tags = NoTags /\ InitState

InitRegistry == chart \in RegistryCharts /\ program_tags = NoTags /\ InitState

InitViews == chart \in ViewCharts /\ program_tags = NoTags /\ InitState

\* SFC(element, program_tags_element), and SFC(element)
InitPresets ==
    /\ chart \in PresetCharts
    /\ program_tags \in {NoTags} \cup {TagSource(t) : t \in SeqsUpTo(TagSet, MaxTags)}
    /\ InitState

\* SFC(element) for the charts with cycles and the charts with shared IDs
InitTraversal ==
    chart \in LoopCharts \cup SharedCharts /\ program_tags = NoTags /\ InitState

-----------------------------------------------------------------------------
(* Node registry: sfc.py:17-30 *)

\* a registry that keeps elements without ID under the key None
RECURSIVE GetElementsByTagKeepNone(_, _, _)
GetElementsByTagKeepNone(els, i, out) ==
    IF i > Len(els) THEN out
    ELSE GetElementsByTagKeepNone(els, i + 1, DictPut(out, els[i].ID, i))

\* _get_elements_by_tag: an element without ID is skipped, a repeated ID
\* replaces the object registered before
RECURSIVE GetElementsByTag(_, _, _)
GetElementsByTag(els, i, out) ==
    IF i > Len(els) THEN out
    ELSE IF els[i].ID = None THEN GetElementsByTag(els, i + 1, out)
    ELSE GetElementsByTag(els, i + 1, DictPut(out, els[i].ID, i))

\* the first Leg with an ID alone
LegIdsFirstOnly(legs) ==
    SubSeq(SelectSeq(legs, LAMBDA l : l # None /\ l # <<>>), 1, 1)

\* [l.attrib.get('ID') for l in el.findall('Leg') if l.attrib.get('ID')]
LegIds(legs) == SelectSeq(legs, LAMBDA l : l # None /\ l # <<>>)

\* _get_branches: the dict ID -> Branch(bid, legs, flow, brtype)
RECURSIVE GetBranches(_, _, _)
GetBranches(els, i, out) ==
    IF i > Len(els) THEN out
    ELSE IF els[i].ID = None THEN GetBranches(els, i + 1, out)
    ELSE GetBranches(els, i + 1,
             DictPut(out, els[i].ID,
                     [id |-> els[i].ID, legs |-> LegIds(els[i].legs),
                      flow |-> els[i].BranchFlow]))

\* for leg in br.legs: self._leg_to_branch[leg] = bid
RECURSIVE PutLegs(_, _, _, _)
PutLegs(legs, j, bid, out) ==
    IF j > Len(legs) THEN out
    ELSE PutLegs(legs, j + 1, bid, DictPut(out, legs[j], bid))

\* for bid, br in self._branches.items(): ...
RECURSIVE LegToBranch(_, _, _)
LegToBranch(brs, i, out) ==
    IF i > Len(brs) THEN out
    ELSE LegToBranch(brs, i + 1, PutLegs(brs[i].v.legs, 1, brs[i].k, out))

RegisterNodes ==
    /\ pc = "start"
    /\ steps' = GetElementsByTag(chart.steps, 1, <<>>)
    /\ transitions' = GetElementsByTag(chart.transitions, 1, <<>>)
    /\ branches' = GetBranches(chart.branches, 1, <<>>)
    /\ leg_to_branch' = LegToBranch(branches', 1, <<>>)
    /\ pc' = "registered"
    /\ UNCHANGED <<chart, xlsx, tags_element, excel, trav, program_tags, preset, view,
                   adj, radj, si, incoming_objs, outgoing_objs,
                   from_steps_objs, to_steps_objs, ret>>

-----------------------------------------------------------------------------
(* Edge collector: sfc.py:160-182 *)

\* links entered in both directions
RECURSIVE AddLinksUndirected(_, _, _)
AddLinksUndirected(links, i, A) ==
    IF i > Len(links) THEN A
    ELSE LET frm == links[i].FromID
             to == links[i].ToID
         IN  IF frm = None \/ to = None THEN AddLinksUndirected(links, i + 1, A)
             ELSE AddLinksUndirected(links, i + 1,
                      [adj |-> AdjAdd(AdjAdd(A.adj, frm, to), to, frm),
                       radj |-> AdjAdd(AdjAdd(A.radj, to, frm), frm, to)])

\* links entered whether or not both ends are present
RECURSIVE AddLinksAbsentEnds(_, _, _)
AddLinksAbsentEnds(links, i, A) ==
    IF i > Len(links) THEN A
    ELSE AddLinksAbsentEnds(links, i + 1,
             [adj |-> AdjAdd(A.adj, links[i].FromID, links[i].ToID),
              radj |-> AdjAdd(A.radj, links[i].ToID, links[i].FromID)])

\* the loop over self.directed_links; A is [adj, radj]
RECURSIVE AddLinks(_, _, _)
AddLinks(links, i, A) ==
    IF i > Len(links) THEN A
    ELSE LET frm == links[i].FromID
             to == links[i].ToID
         IN  IF frm = None \/ to = None THEN AddLinks(links, i + 1, A)
             ELSE AddLinks(links, i + 1,
                      [adj |-> AdjAdd(A.adj, frm, to),
                       radj |-> AdjAdd(A.radj, to, frm)])

\* Branch edges whose reverse entry is not the transpose of the forward one
RECURSIVE AddLegEdgesNotTransposed(_, _, _, _, _)
AddLegEdgesNotTransposed(legs, j, bid, diverge, A) ==
    IF j > Len(legs) THEN A
    ELSE AddLegEdgesNotTransposed(legs, j + 1, bid, diverge,
             IF diverge
             THEN [adj |-> AdjAdd(A.adj, bid, legs[j]),
                   radj |-> AdjAdd(A.radj, bid, legs[j])]
             ELSE [adj |-> AdjAdd(A.adj, legs[j], bid),
                   radj |-> AdjAdd(A.radj, legs[j], bid)])

\* the edges of one Branch, leg by leg
RECURSIVE AddLegEdges(_, _, _, _, _)
AddLegEdges(legs, j, bid, diverge, A) ==
    IF j > Len(legs) THEN A
    ELSE AddLegEdges(legs, j + 1, bid, diverge,
             IF diverge
             THEN [adj |-> AdjAdd(A.adj, bid, legs[j]),
                   radj |-> AdjAdd(A.radj, legs[j], bid)]
             ELSE [adj |-> AdjAdd(A.adj, legs[j], bid),
                   radj |-> AdjAdd(A.radj, bid, legs[j])])

\* the loop over self._branches.items()
RECURSIVE AddBranchEdges(_, _, _)
AddBranchEdges(brs, i, A) ==
    IF i > Len(brs) THEN A
    ELSE AddBranchEdges(brs, i + 1,
             AddLegEdges(brs[i].v.legs, 1, brs[i].k,
                         FlowLower(brs[i].v.flow) = DivergeText, A))

BuildAdjacency ==
    /\ pc = "registered"
    /\ LET A == AddBranchEdges(branches, 1,
                    AddLinks(chart.links, 1, [adj |-> EmptyAdj, radj |-> EmptyAdj]))
       IN  adj' = A.adj /\ radj' = A.radj
    /\ pc' = "resolve"
    /\ UNCHANGED <<chart, xlsx, tags_element, excel, trav, program_tags, preset, view,
                   steps, transitions, branches, leg_to_branch, si,
                   incoming_objs, outgoing_objs, from_steps_objs, to_steps_objs, ret>>

-----------------------------------------------------------------------------
(* Relation resolver: sfc.py:184-240 *)

\* a lookup that asks the Transition registry before the Step registry
node_type_transition_first(nid) ==
    IF DictHas(transitions, nid) THEN "transition"
    ELSE IF DictHas(steps, nid) THEN "step"
    ELSE IF DictHas(branches, nid) THEN "branch"
    ELSE IF DictHas(leg_to_branch, nid) THEN "leg"
    ELSE "other"

\* a lookup that asks the Branch registry before the Transition registry
node_type_branch_first(nid) ==
    IF DictHas(steps, nid) THEN "step"
    ELSE IF DictHas(branches, nid) THEN "branch"
    ELSE IF DictHas(transitions, nid) THEN "transition"
    ELSE IF DictHas(leg_to_branch, nid) THEN "leg"
    ELSE "other"

\* a lookup that takes an unregistered ID for a Leg
node_type_other_as_leg(nid) ==
    IF DictHas(steps, nid) THEN "step"
    ELSE IF DictHas(transitions, nid) THEN "transition"
    ELSE IF DictHas(branches, nid) THEN "branch"
    ELSE "leg"

node_type(nid) ==
    IF DictHas(steps, nid) THEN "step"
    ELSE IF DictHas(transitions, nid) THEN "transition"
    ELSE IF DictHas(branches, nid) THEN "branch"
    ELSE IF DictHas(leg_to_branch, nid) THEN "leg"
    ELSE "other"

\* the neighbour loop passing through Branch nodes but not through Legs
RECURSIVE ScanNeighborsNoLeg(_, _, _)
ScanNeighborsNoLeg(nbs, i, T) ==
    IF i > Len(nbs) THEN T
    ELSE LET nb == nbs[i]
         IN  IF nb \in T.seen THEN ScanNeighborsNoLeg(nbs, i + 1, T)
             ELSE LET S == [T EXCEPT !.seen = @ \cup {nb}]
                  IN  IF DictHas(transitions, nb) /\ ~DictHas(steps, nb)
                      THEN ScanNeighborsNoLeg(nbs, i + 1, [S EXCEPT !.found = @ \cup {nb}])
                      ELSE IF DictHas(branches, nb) /\ ~DictHas(steps, nb)
                      THEN ScanNeighborsNoLeg(nbs, i + 1, [S EXCEPT !.q = Append(@, nb)])
                      ELSE ScanNeighborsNoLeg(nbs, i + 1, S)

\* the neighbour loop of a full-reachability search: a Transition is recorded
\* and explored further (the design sfc.py rejects)
RECURSIVE ScanNeighborsFullReach(_, _, _)
ScanNeighborsFullReach(nbs, i, T) ==
    IF i > Len(nbs) THEN T
    ELSE LET nb == nbs[i]
         IN  IF nb \in T.seen THEN ScanNeighborsFullReach(nbs, i + 1, T)
             ELSE LET S == [T EXCEPT !.seen = @ \cup {nb}]
                  IN  IF DictHas(transitions, nb) /\ ~DictHas(steps, nb)
                      THEN ScanNeighborsFullReach(nbs, i + 1,
                               [S EXCEPT !.found = @ \cup {nb}, !.q = Append(@, nb)])
                      ELSE IF DictHas(branches, nb) \/ DictHas(leg_to_branch, nb)
                      THEN ScanNeighborsFullReach(nbs, i + 1, [S EXCEPT !.q = Append(@, nb)])
                      ELSE ScanNeighborsFullReach(nbs, i + 1, S)

\* the neighbour loop left at the first Transition it records
RECURSIVE ScanNeighborsBreak(_, _, _)
ScanNeighborsBreak(nbs, i, T) ==
    IF i > Len(nbs) THEN T
    ELSE LET nb == nbs[i]
         IN  IF nb \in T.seen THEN ScanNeighborsBreak(nbs, i + 1, T)
             ELSE LET S == [T EXCEPT !.seen = @ \cup {nb}]
                  IN  IF node_type(nb) = "transition"
                      THEN [S EXCEPT !.found = @ \cup {nb}]
                      ELSE IF node_type(nb) \in {"branch", "leg"}
                      THEN ScanNeighborsBreak(nbs, i + 1, [S EXCEPT !.q = Append(@, nb)])
                      ELSE ScanNeighborsBreak(nbs, i + 1, S)

\* the neighbour loop marking the neighbours as seen when it ends instead of
\* one by one
RECURSIVE ScanNeighborsSeenLate(_, _, _)
ScanNeighborsSeenLate(nbs, i, T) ==
    IF i > Len(nbs) THEN [T EXCEPT !.seen = @ \cup {nbs[k] : k \in DOMAIN nbs}]
    ELSE LET nb == nbs[i]
         IN  IF nb \in T.seen THEN ScanNeighborsSeenLate(nbs, i + 1, T)
             ELSE IF node_type(nb) = "transition"
             THEN ScanNeighborsSeenLate(nbs, i + 1, [T EXCEPT !.found = @ \cup {nb}])
             ELSE IF node_type(nb) \in {"branch", "leg"}
             THEN ScanNeighborsSeenLate(nbs, i + 1, [T EXCEPT !.q = Append(@, nb)])
             ELSE ScanNeighborsSeenLate(nbs, i + 1, T)

\* the neighbour loop passing through Steps as it does through Branches and
\* Legs
RECURSIVE ScanNeighborsThroughSteps(_, _, _)
ScanNeighborsThroughSteps(nbs, i, T) ==
    IF i > Len(nbs) THEN T
    ELSE LET nb == nbs[i]
         IN  IF nb \in T.seen THEN ScanNeighborsThroughSteps(nbs, i + 1, T)
             ELSE LET S == [T EXCEPT !.seen = @ \cup {nb}]
                  IN  IF node_type(nb) = "transition"
                      THEN ScanNeighborsThroughSteps(nbs, i + 1,
                               [S EXCEPT !.found = @ \cup {nb}])
                      ELSE IF node_type(nb) \in {"branch", "leg", "step"}
                      THEN ScanNeighborsThroughSteps(nbs, i + 1,
                               [S EXCEPT !.q = Append(@, nb)])
                      ELSE ScanNeighborsThroughSteps(nbs, i + 1, S)

\* the loop `for nb in neighbors`; T is [q, seen, found]
RECURSIVE ScanNeighbors(_, _, _)
ScanNeighbors(nbs, i, T) ==
    IF i > Len(nbs) THEN T
    ELSE LET nb == nbs[i]
         IN  IF nb \in T.seen THEN ScanNeighbors(nbs, i + 1, T)
             ELSE LET S == [T EXCEPT !.seen = @ \cup {nb}]
                  IN  IF node_type(nb) = "transition"
                      THEN ScanNeighbors(nbs, i + 1, [S EXCEPT !.found = @ \cup {nb}])
                      ELSE IF node_type(nb) \in {"branch", "leg"}
                      THEN ScanNeighbors(nbs, i + 1, [S EXCEPT !.q = Append(@, nb)])
                      ELSE ScanNeighbors(nbs, i + 1, S)

\* the loop `while q`
RECURSIVE Traverse(_, _)
Traverse(T, A) ==
    IF T.q = <<>> THEN T.found
    ELSE Traverse(ScanNeighbors(AdjGet(A, Head(T.q)), 1, [T EXCEPT !.q = Tail(@)]), A)

find_immediate_transitions(start, forward) ==
    Traverse([q |-> <<start>>, seen |-> {start}, found |-> {}],
             IF forward THEN adj ELSE radj)

\* find_immediate_transitions(sid, forward) is entered for the Step that the
\* wiring loop resolves next: q = [start], seen = {start}, found = set().
\* trav.enq lists every ID put in q, in order.
TraverseBegin ==
    /\ pc = "resolve"
    /\ si < Len(steps)
    /\ ~trav.active
    /\ \E forward \in BOOLEAN :
          trav' = [active |-> TRUE, start |-> steps[si + 1].k, forward |-> forward,
                   q |-> <<steps[si + 1].k>>, seen |-> {steps[si + 1].k},
                   found |-> {}, enq |-> <<steps[si + 1].k>>]
    /\ UNCHANGED <<chart, xlsx, tags_element, excel, program_tags, preset, view, pc,
                   steps, transitions, branches, leg_to_branch, adj, radj, si,
                   incoming_objs, outgoing_objs, from_steps_objs, to_steps_objs, ret>>

\* one iteration of `while q`: cur = q.pop(0) and the loop over its
\* neighbours
TraversePop ==
    /\ trav.active
    /\ trav.q # <<>>
    /\ Len(trav.enq) <= MaxVisits
    /\ LET A == IF trav.forward THEN adj ELSE radj
           T0 == [q |-> Tail(trav.q), seen |-> trav.seen, found |-> trav.found]
           T1 == ScanNeighbors(AdjGet(A, Head(trav.q)), 1, T0)
       IN  trav' = [trav EXCEPT !.q = T1.q, !.seen = T1.seen, !.found = T1.found,
                                !.enq = @ \o SubSeq(T1.q, Len(T0.q) + 1, Len(T1.q))]
    /\ UNCHANGED <<chart, xlsx, tags_element, excel, program_tags, preset, view, pc,
                   steps, transitions, branches, leg_to_branch, adj, radj, si,
                   incoming_objs, outgoing_objs, from_steps_objs, to_steps_objs, ret>>

\* the permutations of a finite set
RECURSIVE PermSeqs(_)
PermSeqs(S) ==
    IF S = {} THEN {<<>>}
    ELSE UNION {{<<x>> \o p : p \in PermSeqs(S \ {x})} : x \in S}

IntOf(id) == CHOOSE n \in PyIntStr(id) : TRUE

\* sorted(tr_ids, key=lambda x: int(x)) raises when int() fails on a member
Sortable(ids) == \A x \in ids : PyIntStr(x) # {}

\* what sorted(tr_ids, key=lambda x: int(x)) may return: the set is iterated
\* in hash order, which is not fixed, and the sort is stable, so IDs with
\* equal integer values come in any order
SortedOrders(ids) ==
    IF ~Sortable(ids) THEN {<<>>}
    ELSE {p \in PermSeqs(ids) :
             \A i \in 1..(Len(p) - 1) : IntOf(p[i]) <= IntOf(p[i + 1])}

\* Step.add_outgoing_transition etc.: append unless already in the list
AddObj(list, obj) ==
    IF \E i \in DOMAIN list : list[i] = obj THEN list ELSE Append(list, obj)

\* wiring that forgets the back reference (no add_from_step / add_to_step)
RECURSIVE WireOneWay(_, _, _, _)
WireOneWay(order, i, step_obj, R) ==
    IF i > Len(order) THEN R
    ELSE LET tr_obj == DictGet(transitions, order[i])
         IN  IF tr_obj = NoObj THEN WireOneWay(order, i + 1, step_obj, R)
             ELSE WireOneWay(order, i + 1, step_obj,
                      [mine |-> AddObj(R.mine, tr_obj), theirs |-> R.theirs])

\* wiring that takes the first Transition element carrying the ID instead of
\* the object registered under it
RECURSIVE WireFirstElement(_, _, _, _)
WireFirstElement(order, i, step_obj, R) ==
    IF i > Len(order) THEN R
    ELSE LET tr_obj == CHOOSE o \in 1..Len(chart.transitions) :
                           /\ chart.transitions[o].ID = order[i]
                           /\ \A u \in 1..(o - 1) : chart.transitions[u].ID # order[i]
         IN  WireFirstElement(order, i + 1, step_obj,
                 [mine |-> AddObj(R.mine, tr_obj),
                  theirs |-> [R.theirs EXCEPT ![tr_obj] = AddObj(@, step_obj)]])

\* the loop `for tid in sorted(...)`; R is [mine, theirs]: the Step's own
\* list and the per-Transition lists on the other side
RECURSIVE Wire(_, _, _, _)
Wire(order, i, step_obj, R) ==
    IF i > Len(order) THEN R
    ELSE LET tr_obj == DictGet(transitions, order[i])
         IN  IF tr_obj = NoObj THEN Wire(order, i + 1, step_obj, R)
             ELSE Wire(order, i + 1, step_obj,
                      [mine |-> AddObj(R.mine, tr_obj),
                       theirs |-> [R.theirs EXCEPT ![tr_obj] = AddObj(@, step_obj)]])

\* one iteration of `for sid, step_obj in self._steps.items()`
ResolveStep ==
    /\ pc = "resolve"
    /\ si < Len(steps)
    /\ LET sid == steps[si + 1].k
           step_obj == steps[si + 1].v
           tr_ids == find_immediate_transitions(sid, TRUE)
           tr_in_ids == find_immediate_transitions(sid, FALSE)
       IN  \E oo \in SortedOrders(tr_ids), io \in SortedOrders(tr_in_ids) :
             LET O == Wire(oo, 1, step_obj,
                           [mine |-> outgoing_objs[step_obj], theirs |-> from_steps_objs])
                 I == Wire(io, 1, step_obj,
                           [mine |-> incoming_objs[step_obj], theirs |-> to_steps_objs])
             IN  IF ~Sortable(tr_ids)
                 THEN /\ pc' = "raised"
                      /\ UNCHANGED <<si, incoming_objs, outgoing_objs,
                                     from_steps_objs, to_steps_objs>>
                 ELSE /\ outgoing_objs' = [outgoing_objs EXCEPT ![step_obj] = O.mine]
                      /\ from_steps_objs' = O.theirs
                      /\ IF ~Sortable(tr_in_ids)
                         THEN /\ pc' = "raised"
                              /\ UNCHANGED <<si, incoming_objs, to_steps_objs>>
                         ELSE /\ incoming_objs' = [incoming_objs EXCEPT ![step_obj] = I.mine]
                              /\ to_steps_objs' = I.theirs
                              /\ si' = si + 1
                              /\ pc' = "resolve"
    /\ UNCHANGED <<chart, xlsx, tags_element, excel, trav, program_tags, preset, view,
                   steps, transitions, branches, leg_to_branch, adj, radj, ret>>

-----------------------------------------------------------------------------
(* Final ordering: sfc.py:242-248 *)

\* x put behind every element whose key is not larger (a stable insertion)
RECURSIVE InsertByKey(_, _, _)
InsertByKey(sorted, x, key) ==
    IF sorted = <<>> THEN <<x>>
    ELSE IF key[x] < key[Head(sorted)] THEN <<x>> \o sorted
    ELSE <<Head(sorted)>> \o InsertByKey(Tail(sorted), x, key)

\* list.sort(key=...): stable, ascending
RECURSIVE StableSort(_, _, _)
StableSort(list, i, key) ==
    IF i = 0 THEN <<>>
    ELSE InsertByKey(StableSort(list, i - 1, key), list[i], key)

ListSort(list, key) == StableSort(list, Len(list), key)

StepId(o) == chart.steps[o].ID
TransId(o) == chart.transitions[o].ID

Registered(d) == {d[i].v : i \in DOMAIN d}

\* some key int(t.id) / int(s.id) of a list that is sorted raises
SortRaises ==
    \/ \E s \in Registered(steps) :
          \E i \in DOMAIN incoming_objs[s] : PyIntStr(TransId(incoming_objs[s][i])) = {}
    \/ \E s \in Registered(steps) :
          \E i \in DOMAIN outgoing_objs[s] : PyIntStr(TransId(outgoing_objs[s][i])) = {}
    \/ \E t \in Registered(transitions) :
          \E i \in DOMAIN from_steps_objs[t] : PyIntStr(StepId(from_steps_objs[t][i])) = {}
    \/ \E t \in Registered(transitions) :
          \E i \in DOMAIN to_steps_objs[t] : PyIntStr(StepId(to_steps_objs[t][i])) = {}

StepKey(list) == [o \in {list[i] : i \in DOMAIN list} |-> IntOf(StepId(o))]
TransKey(list) == [o \in {list[i] : i \in DOMAIN list} |-> IntOf(TransId(o))]

SortTransList(list) == ListSort(list, TransKey(list))

\* the final sort of the Step lists left out
SortStepListOmitted(list) == list

SortStepList(list) == ListSort(list, StepKey(list))

\* the four sort loops; a raising key aborts the construction
SortRelations ==
    /\ pc = "resolve"
    /\ si = Len(steps)
    /\ IF SortRaises
       THEN /\ pc' = "raised"
            /\ UNCHANGED <<incoming_objs, outgoing_objs, from_steps_objs, to_steps_objs>>
       ELSE /\ pc' = "done"
            /\ incoming_objs' = [o \in StepObjs |->
                   IF o \in Registered(steps) THEN SortTransList(incoming_objs[o])
                   ELSE incoming_objs[o]]
            /\ outgoing_objs' = [o \in StepObjs |->
                   IF o \in Registered(steps) THEN SortTransList(outgoing_objs[o])
                   ELSE outgoing_objs[o]]
            /\ from_steps_objs' = [o \in TransObjs |->
                   IF o \in Registered(transitions) THEN SortStepList(from_steps_objs[o])
                   ELSE from_steps_objs[o]]
            /\ to_steps_objs' = [o \in TransObjs |->
                   IF o \in Registered(transitions) THEN SortStepList(to_steps_objs[o])
                   ELSE to_steps_objs[o]]
    /\ UNCHANGED <<chart, xlsx, tags_element, excel, trav, program_tags, preset, view,
                   steps, transitions, branches, leg_to_branch, adj, radj, si, ret>>

-----------------------------------------------------------------------------
(* Operand index: sfc.py:87-99 *)

\* the scan `for node in d.values(): if node.int_operand() == int(n): return`
\* els are the elements the objects wrap
RECURSIVE ScanOperand(_, _, _, _)
ScanOperand(d, els, i, arg) ==
    IF i > Len(d) THEN [result |-> NoObj, raised |-> FALSE]
    ELSE IF PyInt(arg) = {} THEN [result |-> NoObj, raised |-> TRUE]
    ELSE IF IntOperand(els[d[i].v].Operand) = PyInt(arg)
         THEN [result |-> d[i].v, raised |-> FALSE]
    ELSE ScanOperand(d, els, i + 1, arg)

\* a scan that starts behind the first registered Step
get_step_by_operand_skip_first(arg) == ScanOperand(steps, chart.steps, 2, arg)

get_step_by_operand(arg) == ScanOperand(steps, chart.steps, 1, arg)

\* a scan that returns the last match instead of the first
RECURSIVE ScanOperandLast(_, _, _, _)
ScanOperandLast(d, els, i, arg) ==
    IF i < 1 THEN [result |-> NoObj, raised |-> FALSE]
    ELSE IF PyInt(arg) = {} THEN [result |-> NoObj, raised |-> TRUE]
    ELSE IF IntOperand(els[d[i].v].Operand) = PyInt(arg)
         THEN [result |-> d[i].v, raised |-> FALSE]
    ELSE ScanOperandLast(d, els, i - 1, arg)

get_transition_by_operand_last(arg) ==
    ScanOperandLast(transitions, chart.transitions, Len(transitions), arg)

get_transition_by_operand(arg) == ScanOperand(transitions, chart.transitions, 1, arg)

\* The lookups read the graph and write nothing, so the state after a call
\* differs from the state before it in ret alone: one call is observed per
\* behaviour.
GetStepByOperand ==
    /\ pc = "done"
    /\ ret = NoCall
    /\ \E arg \in LookupArgs :
          ret' = [op |-> "get_step_by_operand", arg |-> arg,
                  out |-> get_step_by_operand(arg)]
    /\ UNCHANGED <<chart, xlsx, tags_element, excel, trav, program_tags, preset, view,
                   pc, steps, transitions, branches, leg_to_branch, adj, radj,
                   si, incoming_objs, outgoing_objs, from_steps_objs, to_steps_objs>>

GetTransitionByOperand ==
    /\ pc = "done"
    /\ ret = NoCall
    /\ \E arg \in LookupArgs :
          ret' = [op |-> "get_transition_by_operand", arg |-> arg,
                  out |-> get_transition_by_operand(arg)]
    /\ UNCHANGED <<chart, xlsx, tags_element, excel, trav, program_tags, preset, view,
                   pc, steps, transitions, branches, leg_to_branch, adj, radj,
                   si, incoming_objs, outgoing_objs, from_steps_objs, to_steps_objs>>

-----------------------------------------------------------------------------
(* Lookup by ID: sfc.py:79-85 *)

\* the key that the argument is for a dict with str keys: an int is equal
\* to no str
IdKeyOf(arg) == IF arg.t = "str" THEN arg.s ELSE None

\* self._steps.get(id_)
get_step(arg) == [result |-> DictGet(steps, IdKeyOf(arg)), raised |-> FALSE]

\* self._transitions.get(id_)
get_transition(arg) == [result |-> DictGet(transitions, IdKeyOf(arg)), raised |-> FALSE]

GetStep ==
    /\ pc = "done"
    /\ ret = NoCall
    /\ \E arg \in IdArgs :
          ret' = [op |-> "get_step", arg |-> arg, out |-> get_step(arg)]
    /\ UNCHANGED <<chart, xlsx, tags_element, excel, trav, program_tags, preset, view, pc, steps, transitions,
                   branches, leg_to_branch, adj, radj, si, incoming_objs,
                   outgoing_objs, from_steps_objs, to_steps_objs>>

GetTransition ==
    /\ pc = "done"
    /\ ret = NoCall
    /\ \E arg \in IdArgs :
          ret' = [op |-> "get_transition", arg |-> arg, out |-> get_transition(arg)]
    /\ UNCHANGED <<chart, xlsx, tags_element, excel, trav, program_tags, preset, view, pc, steps, transitions,
                   branches, leg_to_branch, adj, radj, si, incoming_objs,
                   outgoing_objs, from_steps_objs, to_steps_objs>>

-----------------------------------------------------------------------------
(* Preset loader: sfc.py:33-35, 250-282 *)

\* str.strip() for the blank " "
RECURSIVE LStrip(_)
LStrip(s) == IF s # <<>> /\ Head(s) = " " THEN LStrip(Tail(s)) ELSE s

RECURSIVE RStrip(_)
RStrip(s) ==
    IF s # <<>> /\ s[Len(s)] = " " THEN RStrip(SubSeq(s, 1, Len(s) - 1)) ELSE s

Strip(s) == RStrip(LStrip(s))

\* int(pre_value) for a str of digits, signs, blanks and letters: blanks
\* around the number are ignored and one sign may precede the digits; {}
\* stands for ValueError
PyIntSigned(s) ==
    LET t == Strip(s)
        signed == t # <<>> /\ Head(t) \in {"+", "-"}
        body == IF signed THEN Tail(t) ELSE t
    IN  IF body = <<>> \/ ~IsDigits(body) THEN {}
        ELSE IF signed /\ Head(t) = "-" THEN {0 - DigitsValue(body, 0)}
        ELSE {DigitsValue(body, 0)}

\* the path ".//Tag[@Name='{operand}']": an apostrophe of the operand ends
\* the quoted literal early and ElementPath raises SyntaxError
XPathRaises(operand) == \E i \in DOMAIN operand : operand[i] = "'"

\* find(".//Tag[@Name='...']"): the first Tag in document order that has
\* the name, 0 when there is none
FindTag(tags, name) ==
    LET M == {i \in DOMAIN tags : tags[i].Name = name}
    IN  IF M = {} THEN 0 ELSE CHOOSE i \in M : \A j \in M : i <= j

\* tag_elem.find(".//DataValueMember[@Name='PRE']"): the first such member
FindPre(members) ==
    LET M == {i \in DOMAIN members : members[i].Name = "PRE"}
    IN  IF M = {} THEN 0 ELSE CHOOSE i \in M : \A j \in M : i <= j

\* the loop `for step in self._steps.values()`; P is [preset, raised]
RECURSIVE LoadPresets(_, _)
LoadPresets(i, P) ==
    IF i > Len(steps) THEN P
    ELSE LET step == steps[i].v
             operand == chart.steps[step].Operand
         IN  IF operand = None THEN LoadPresets(i + 1, P)
             ELSE IF XPathRaises(operand) THEN [P EXCEPT !.raised = TRUE]
             ELSE LET t == FindTag(program_tags.tags, operand)
                      m == IF t = 0 THEN 0 ELSE FindPre(program_tags.tags[t].members)
                      pre_value == IF m = 0 THEN None
                                   ELSE program_tags.tags[t].members[m].Value
                  IN  IF pre_value = None \/ PyIntSigned(pre_value) = {}
                      THEN LoadPresets(i + 1, P)
                      ELSE LoadPresets(i + 1,
                               [P EXCEPT !.preset[step] = PyIntSigned(pre_value)])

\* a loader that sorts the Steps' lists again, by the Transition's place in
\* the document
LoadStepPresetsResorting ==
    /\ pc = "done"
    /\ program_tags.given
    /\ LET P == LoadPresets(1, [preset |-> preset, raised |-> FALSE])
       IN  /\ preset' = P.preset
           /\ pc' = IF P.raised THEN "raised" ELSE "loaded"
    /\ outgoing_objs' = [o \in StepObjs |->
                            ListSort(outgoing_objs[o], [t \in TransObjs |-> 0 - t])]
    /\ UNCHANGED <<chart, xlsx, tags_element, excel, trav, program_tags, view, steps, transitions, branches,
                   leg_to_branch, adj, radj, si, incoming_objs,
                   from_steps_objs, to_steps_objs, ret>>

\* `if program_tags_element is not None: self._load_step_presets(...)`
LoadStepPresets ==
    /\ pc = "done"
    /\ program_tags.given
    /\ LET P == LoadPresets(1, [preset |-> preset, raised |-> FALSE])
       IN  /\ preset' = P.preset
           /\ pc' = IF P.raised THEN "raised" ELSE "loaded"
    /\ UNCHANGED <<chart, xlsx, tags_element, excel, trav, program_tags, view, steps, transitions, branches,
                   leg_to_branch, adj, radj, si, incoming_objs, outgoing_objs,
                   from_steps_objs, to_steps_objs, ret>>

-----------------------------------------------------------------------------
(* Text of Steps and Transitions: sfc.py:377-419, 472-502 *)

\* `x` used as a condition, for an optional str: None and "" are false
Truthy(text) == text # None /\ text # <<>>

\* the text of a Line: the CDATA child's text if it has any, else the
\* Line's own text, else None
LineText(line) ==
    IF Truthy(line.cdata) THEN line.cdata
    ELSE IF Truthy(line.text) THEN line.text
    ELSE None

\* the loop `for line_elem in st_content.findall('Line')`
RECURSIVE ExtractLines(_, _, _)
ExtractLines(lines, i, out) ==
    IF i > Len(lines) THEN out
    ELSE LET text == LineText(lines[i])
         IN  IF Truthy(text) /\ Strip(text) # <<>>
             THEN ExtractLines(lines, i + 1, Append(out, Strip(text)))
             ELSE ExtractLines(lines, i + 1, out)

\* the loop `for action in self.element.findall('Action')` of Step.st
RECURSIVE StLines(_, _, _)
StLines(acts, i, st_lines) ==
    IF i > Len(acts) THEN st_lines
    ELSE IF ~acts[i].body \/ ~acts[i].stcontent THEN StLines(acts, i + 1, st_lines)
    ELSE StLines(acts, i + 1, ExtractLines(acts[i].lines, 1, st_lines))

\* Step.st of the Step object o
st(o) == StLines(chart.steps[o].Action, 1, <<>>)

\* Transition.condition of the Transition object o: [none, lines], none
\* being a returned None
condition(o) ==
    LET elem == chart.transitions[o].Condition
    IN  IF ~elem.present \/ ~elem.stcontent THEN [none |-> TRUE, lines |-> <<>>]
        ELSE [none |-> FALSE, lines |-> ExtractLines(elem.lines, 1, <<>>)]

-----------------------------------------------------------------------------
(* Action aggregator: sfc.py:113-150 *)

NL == "\n"

\* an action text that is the first line alone
JoinLinesFirstOnly(lines, i) == IF i > Len(lines) THEN <<>> ELSE lines[i]

\* '\n'.join(st_content)
RECURSIVE JoinLines(_, _)
JoinLines(lines, i) ==
    IF i > Len(lines) THEN <<>>
    ELSE IF i = Len(lines) THEN lines[i]
    ELSE lines[i] \o <<NL>> \o JoinLines(lines, i + 1)

\* the loop `for step in self._steps.values()`; M is action_map
RECURSIVE GroupByAction(_, _)
GroupByAction(i, M) ==
    IF i > Len(steps) THEN M
    ELSE LET step == steps[i].v
             st_content == st(step)
             action_text == JoinLines(st_content, 1)
             N == IF DictHas(M, action_text) THEN M ELSE DictPut(M, action_text, <<>>)
         IN  IF st_content = <<>> THEN GroupByAction(i + 1, M)
             ELSE GroupByAction(i + 1,
                      [N EXCEPT ![DictIdx(N, action_text)].v = Append(@, step)])

\* characters that str.isdigit() accepts and int() rejects
SuperscriptDigits == {"²"}

\* s.id.isdigit()
IsDigitStr(s) ==
    s # <<>> /\ \A i \in DOMAIN s : s[i] \in DigitChars \cup SuperscriptDigits

\* float('inf') as a sort key
Inf == -1

\* int(s.id) if s.id and s.id.isdigit() else float('inf'); {} is ValueError
IdKey(id) ==
    IF Truthy(id) /\ IsDigitStr(id) THEN PyIntStr(id) ELSE {Inf}

KeyLess(a, b) == a # Inf /\ (b = Inf \/ a < b)

\* the Step object x put behind every Step whose key is not larger
RECURSIVE InsertById(_, _)
InsertById(sorted, x) ==
    LET KeyOf(o) == CHOOSE n \in IdKey(StepId(o)) : TRUE
    IN  IF sorted = <<>> THEN <<x>>
        ELSE IF KeyLess(KeyOf(x), KeyOf(Head(sorted))) THEN <<x>> \o sorted
        ELSE <<Head(sorted)>> \o InsertById(Tail(sorted), x)

\* action_steps.sort(key=...): stable, ascending
RECURSIVE SortById(_, _)
SortById(list, i) ==
    IF i = 0 THEN <<>> ELSE InsertById(SortById(list, i - 1), list[i])

CharCode(c) ==
    CASE c = NL -> 10 [] c = " " -> 32 [] c = "a" -> 97 [] c = "b" -> 98

\* a < b for two str
RECURSIVE StrLess(_, _)
StrLess(a, b) ==
    IF b = <<>> THEN FALSE
    ELSE IF a = <<>> THEN TRUE
    ELSE IF Head(a) = Head(b) THEN StrLess(Tail(a), Tail(b))
    ELSE CharCode(Head(a)) < CharCode(Head(b))

RECURSIVE InsertByText(_, _)
InsertByText(sorted, x) ==
    IF sorted = <<>> THEN <<x>>
    ELSE IF StrLess(x.k, Head(sorted).k) THEN <<x>> \o sorted
    ELSE <<Head(sorted)>> \o InsertByText(Tail(sorted), x)

\* sorted(action_map.items(), key=lambda x: x[0])
RECURSIVE SortByText(_, _)
SortByText(items, i) ==
    IF i = 0 THEN <<>> ELSE InsertByText(SortByText(items, i - 1), items[i])

\* the property SFC.actions: [raised, groups], a group being [k, v] with
\* the action text k and the list v of Step objects
actions ==
    LET M == GroupByAction(1, <<>>)
        raises == \E g \in DOMAIN M : \E j \in DOMAIN M[g].v :
                      IdKey(StepId(M[g].v[j])) = {}
        S == [g \in DOMAIN M |-> [k |-> M[g].k, v |-> SortById(M[g].v, Len(M[g].v))]]
    IN  IF raises THEN [raised |-> TRUE, groups |-> <<>>]
        ELSE [raised |-> FALSE, groups |-> SortByText(S, Len(S))]

\* The views read the graph and write nothing: one read is observed per
\* behaviour.
GetActions ==
    /\ pc = "done"
    /\ view = NoView
    /\ view' = [NoView EXCEPT !.op = "actions", !.raised = actions.raised,
                              !.groups = actions.groups]
    /\ UNCHANGED <<chart, xlsx, tags_element, excel, trav, program_tags, preset, pc, steps, transitions, branches,
                   leg_to_branch, adj, radj, si, incoming_objs, outgoing_objs,
                   from_steps_objs, to_steps_objs, ret>>

GetSt ==
    /\ pc = "done"
    /\ view = NoView
    /\ \E o \in Registered(steps) :
          view' = [NoView EXCEPT !.op = "st", !.obj = o, !.lines = st(o)]
    /\ UNCHANGED <<chart, xlsx, tags_element, excel, trav, program_tags, preset, pc, steps, transitions, branches,
                   leg_to_branch, adj, radj, si, incoming_objs, outgoing_objs,
                   from_steps_objs, to_steps_objs, ret>>

GetCondition ==
    /\ pc = "done"
    /\ view = NoView
    /\ \E o \in Registered(transitions) :
          view' = [NoView EXCEPT !.op = "condition", !.obj = o,
                                  !.none = condition(o).none,
                                  !.lines = condition(o).lines]
    /\ UNCHANGED <<chart, xlsx, tags_element, excel, trav, program_tags, preset, pc, steps, transitions, branches,
                   leg_to_branch, adj, radj, si, incoming_objs, outgoing_objs,
                   from_steps_objs, to_steps_objs, ret>>

-----------------------------------------------------------------------------
(* Tags from a sheet: excel.py:13-72 and program.py:66-83.  The sheet is   *)
(* what pandas.read_excel returns: the set of column names and the rows in *)
(* sheet order, each row holding one cell per required column.  A cell is  *)
(* a str or NaN (an empty cell).  A created tag is a record of its name    *)
(* and the attributes the row decides.                                     *)

\* an empty cell; pandas.notna(cell) is cell # NaN
NaN == <<"NaN">>

\* str(cell): the text of a NaN is "nan"
CellStr(cell) == IF cell = NaN THEN <<"n", "a", "n">> ELSE cell

Alias == <<"A", "l", "i", "a", "s">>
Base == <<"B", "a", "s", "e">>
DINT == <<"D", "I", "N", "T">>
BOOL == <<"B", "O", "O", "L">>

required_columns == {"Name", "TagType", "AliasFor", "DataType"}

\* the keys of l5x.tag.base_data_types
base_data_types ==
    {<<"S", "I", "N", "T">>, <<"I", "N", "T">>, DINT, BOOL, <<"R", "E", "A", "L">>}

Error(type, row, msg) == [type |-> type, row |-> row, msg |-> msg]

\* ValueError(f"Row {idx + 2}: ...") for the row at position i of the sheet
\* (idx = i - 1)
RowError(i, msg) == Error("ValueError", i + 1, msg)

AliasTag(name, alias_for) ==
    [Name |-> name, TagType |-> "Alias", AliasFor |-> alias_for, DataType |-> <<>>]
BaseTag(name, data_type) ==
    [Name |-> name, TagType |-> "Base", AliasFor |-> <<>>, DataType |-> data_type]

\* l5x.tag.create_alias_tag: appends the Tag element, or raises ValueError
\* without a row number
create_alias_tag(tags, name, alias_for) ==
    IF name = <<>>
    THEN [tags |-> tags,
          err |-> Error("ValueError", 0, "Tag name must be a non-empty string")]
    ELSE IF alias_for = <<>>
    THEN [tags |-> tags,
          err |-> Error("ValueError", 0, "AliasFor must be a non-empty string")]
    ELSE [tags |-> Append(tags, AliasTag(name, alias_for)), err |-> NoError]

\* l5x.tag.create_base_tag
create_base_tag(tags, name, data_type) ==
    IF name = <<>>
    THEN [tags |-> tags,
          err |-> Error("ValueError", 0, "Tag name must be a non-empty string")]
    ELSE IF data_type \notin base_data_types
    THEN [tags |-> tags, err |-> Error("ValueError", 0, "Invalid DataType")]
    ELSE [tags |-> Append(tags, BaseTag(name, data_type)), err |-> NoError]

\* except ValueError as e: an error without "Row" gets the row number
RowContext(i, r) ==
    IF r.err.type = "ValueError" /\ r.err.row = 0
    THEN [r EXCEPT !.err.row = i + 1]
    ELSE r

\* the body of the loop for one row: [tags, err]
ProcessRow(row, i, tags) ==
    LET tag_name == Strip(CellStr(row.Name))
        tag_type == Strip(CellStr(row.TagType))
    IN  IF tag_name = <<>>
        THEN [tags |-> tags, err |-> RowError(i, "Name cannot be empty")]
        ELSE IF tag_type = Alias
        THEN LET alias_for == IF row.AliasFor # NaN
                              THEN Strip(CellStr(row.AliasFor)) ELSE <<>>
             IN  IF alias_for = <<>>
                 THEN [tags |-> tags,
                       err |-> RowError(i, "AliasFor is required for Alias tags")]
                 ELSE RowContext(i, create_alias_tag(tags, tag_name, alias_for))
        ELSE IF tag_type = Base
        THEN LET data_type == IF row.DataType # NaN
                              THEN Strip(CellStr(row.DataType)) ELSE <<>>
             IN  IF data_type = <<>>
                 THEN [tags |-> tags,
                       err |-> RowError(i, "DataType is required for Base tags")]
                 ELSE IF data_type \notin base_data_types
                 THEN [tags |-> tags, err |-> RowError(i, "Invalid DataType")]
                 ELSE RowContext(i, create_base_tag(tags, tag_name, data_type))
        ELSE [tags |-> tags, err |-> RowError(i, "Invalid TagType")]

\* a loop that goes on after a row that raised and raises the first error
\* when the sheet ends
RECURSIVE ProcessRowsSkipInvalid(_, _, _)
ProcessRowsSkipInvalid(rows, i, R) ==
    IF i > Len(rows) THEN R
    ELSE LET r == ProcessRow(rows[i], i, R.tags)
         IN  ProcessRowsSkipInvalid(rows, i + 1,
                 [tags |-> r.tags,
                  err |-> IF R.err # NoError THEN R.err ELSE r.err])

\* for idx, row in df.iterrows(): the first row that raises ends the loop;
\* R is [tags, err]
RECURSIVE ProcessRows(_, _, _)
ProcessRows(rows, i, R) ==
    IF i > Len(rows) THEN R
    ELSE LET r == ProcessRow(rows[i], i, R.tags)
         IN  IF r.err # NoError THEN r ELSE ProcessRows(rows, i + 1, r)

\* the rows are processed before the columns are checked
create_tags_from_excel_rows_first(tags_el, file) ==
    IF ~file.pandas
    THEN [tags |-> tags_el.tags,
          err |-> Error("ImportError", 0, "pandas is required")]
    ELSE IF ~tags_el.present
    THEN [tags |-> tags_el.tags,
          err |-> Error("RuntimeError", 0, "tags_element cannot be None")]
    ELSE LET r == ProcessRows(file.rows, 1, [tags |-> tags_el.tags, err |-> NoError])
         IN  IF required_columns \ file.columns # {}
             THEN [tags |-> r.tags,
                   err |-> Error("ValueError", 0, "missing required columns")]
             ELSE r

\* excel.create_tags_from_excel(tags_element, filepath): [tags, err]
create_tags_from_excel(tags_el, file) ==
    IF ~file.pandas
    THEN [tags |-> tags_el.tags,
          err |-> Error("ImportError", 0, "pandas is required")]
    ELSE IF ~tags_el.present
    THEN [tags |-> tags_el.tags,
          err |-> Error("RuntimeError", 0, "tags_element cannot be None")]
    ELSE IF required_columns \ file.columns # {}
    THEN [tags |-> tags_el.tags,
          err |-> Error("ValueError", 0, "missing required columns")]
    ELSE ProcessRows(file.rows, 1, [tags |-> tags_el.tags, err |-> NoError])

Ended(op, r) ==
    [pc |-> IF r.err = NoError THEN "returned" ELSE "raised", op |-> op, err |-> r.err]

\* a call of l5x.excel.create_tags_from_excel
CreateTagsFromExcel ==
    /\ excel.pc = "idle"
    /\ LET r == create_tags_from_excel(tags_element, xlsx)
       IN  /\ tags_element' = [tags_element EXCEPT !.tags = r.tags]
           /\ excel' = Ended("excel", r)
    /\ UNCHANGED <<chart, xlsx, trav, program_tags, preset, view, pc, steps,
                   transitions, branches, leg_to_branch, adj, radj, si,
                   incoming_objs, outgoing_objs, from_steps_objs, to_steps_objs, ret>>

\* a call of Program.create_tags_from_excel: the Tags element is looked up
\* first
ProgramCreateTagsFromExcel ==
    /\ excel.pc = "idle"
    /\ LET r == IF ~tags_element.present
                THEN [tags |-> tags_element.tags,
                      err |-> Error("RuntimeError", 0, "Program has no Tags element")]
                ELSE create_tags_from_excel(tags_element, xlsx)
       IN  /\ tags_element' = [tags_element EXCEPT !.tags = r.tags]
           /\ excel' = Ended("program", r)
    /\ UNCHANGED <<chart, xlsx, trav, program_tags, preset, view, pc, steps,
                   transitions, branches, leg_to_branch, adj, radj, si,
                   incoming_objs, outgoing_objs, from_steps_objs, to_steps_objs, ret>>

(* The sheets *)

RowEl(name, tag_type, alias_for, data_type) ==
    [Name |-> name, TagType |-> tag_type, AliasFor |-> alias_for,
     DataType |-> data_type]

\* rows that create a tag (an empty Name cell reads as the name "nan") and
\* rows that do not: blank Name, TagType that is neither Alias nor Base,
\* Alias without AliasFor, Base without DataType or with an unknown one
SheetRows ==
    {RowEl(<<"A">>, Alias, <<"X">>, NaN),
     RowEl(<<"B">>, Base, NaN, DINT),
     RowEl(<<" ", "C", " ">>, <<" ", "B", "a", "s", "e">>, <<"X">>, <<"B", "O", "O", "L", " ">>),
     RowEl(NaN, Alias, <<" ", "Y">>, DINT),
     RowEl(<<" ">>, Base, NaN, DINT),
     RowEl(<<"D">>, <<"a", "l", "i", "a", "s">>, <<"X">>, DINT),
     RowEl(<<"E">>, NaN, <<"X">>, DINT),
     RowEl(<<"F">>, Alias, NaN, DINT),
     RowEl(<<"G">>, Alias, <<" ">>, NaN),
     RowEl(<<"H">>, Base, <<"X">>, NaN),
     RowEl(<<"I">>, Base, NaN, <<"X", "X">>)}

ColumnSets ==
    {required_columns, required_columns \cup {"Comment"}, {"Name", "TagType"},
     required_columns \ {"AliasFor"}, {"name", "TagType", "AliasFor", "DataType"}}

\* the cells of a column that the sheet lacks do not exist; they are NaN here
\* and never read
SheetRow(cols, row) ==
    RowEl(IF "Name" \in cols THEN row.Name ELSE NaN,
          IF "TagType" \in cols THEN row.TagType ELSE NaN,
          IF "AliasFor" \in cols THEN row.AliasFor ELSE NaN,
          IF "DataType" \in cols THEN row.DataType ELSE NaN)

\* every sheet of at most MaxRows rows with pandas installed, and the sheets
\* of at most one row without it
Sheets ==
    {[pandas |-> TRUE, columns |-> cols,
      rows |-> [i \in DOMAIN rows |-> SheetRow(cols, rows[i])]] :
        cols \in ColumnSets, rows \in SeqsUpTo(SheetRows, MaxRows)}
    \cup {[pandas |-> FALSE, columns |-> cols,
           rows |-> [i \in DOMAIN rows |-> SheetRow(cols, rows[i])]] :
             cols \in ColumnSets, rows \in SeqsUpTo(SheetRows, 1)}

\* the Tags element before the call: absent, empty, or holding a tag
TagsElements ==
    {NoElement, [present |-> TRUE, tags |-> <<>>],
     [present |-> TRUE, tags |-> <<BaseTag(<<"Z">>, DINT)>>]}

InitExcel ==
    /\ chart = Chart(<<>>, <<>>, <<>>, <<>>)
    /\ program_tags = NoTags
    /\ InitGraph
    /\ xlsx \in Sheets
    /\ tags_element \in TagsElements
    /\ excel = Idle

-----------------------------------------------------------------------------
(* Specifications *)

Construct == RegisterNodes \/ BuildAdjacency \/ ResolveStep \/ SortRelations

\* construction of the graph for every chart of GraphCharts
Next == Construct

Spec == Init /\ [][Next]_vars

\* construction followed by any operand lookups, for every chart of LookupCharts
NextLookup == Construct \/ GetStepByOperand \/ GetTransitionByOperand

SpecLookup == InitLookup /\ [][NextLookup]_vars

\* construction followed by a lookup by ID, for every chart of RegistryCharts
NextRegistry == Construct \/ GetStep \/ GetTransition

SpecRegistry == InitRegistry /\ [][NextRegistry]_vars

\* construction followed by a read of a derived view, for every chart of
\* ViewCharts
NextViews == Construct \/ GetActions \/ GetSt \/ GetCondition

SpecViews == InitViews /\ [][NextViews]_vars

\* construction with and without a tag source, for every chart of PresetCharts
NextPresets == Construct \/ LoadStepPresets

SpecPresets == InitPresets /\ [][NextPresets]_vars

\* construction with one traversal followed iteration by iteration, for
\* every chart of LoopCharts and SharedCharts; a traversal that has begun runs on until its
\* queue is empty
NextTraversal == Construct \/ TraverseBegin \/ TraversePop

SpecTraversal == InitTraversal /\ [][NextTraversal]_vars /\ WF_vars(TraversePop)

\* one call that creates tags from a sheet, for every sheet of Sheets
NextExcel == CreateTagsFromExcel \/ ProgramCreateTagsFromExcel

SpecExcel == InitExcel /\ [][NextExcel]_vars

-----------------------------------------------------------------------------
(* Properties of the constructed graph *)

Done == pc = "done"

Elems(list) == {list[i] : i \in DOMAIN list}

RegSteps == Registered(steps)
RegTrans == Registered(transitions)

\* C1: after construction, a Transition is in a Step's outgoing list exactly
\* when the Step is in the Transition's from_steps list, and in its incoming
\* list exactly when the Step is in the Transition's to_steps list.
C1_Bidirectional ==
    Done =>
        \A s \in StepObjs, t \in TransObjs :
            /\ t \in Elems(outgoing_objs[s]) <=> s \in Elems(from_steps_objs[t])
            /\ t \in Elems(incoming_objs[s]) <=> s \in Elems(to_steps_objs[t])

\* a constructed graph where some Step has an outgoing and some Step an
\* incoming Transition
C1_Witness ==
    /\ Done
    /\ \E s \in StepObjs : outgoing_objs[s] # <<>>
    /\ \E s \in StepObjs : incoming_objs[s] # <<>>

\* C2: after construction, every entry of a Step's incoming/outgoing list is
\* the Transition registered under its ID, every entry of a Transition's
\* from_steps/to_steps list is the Step registered under its ID, and only
\* registered nodes have entries at all.
C2_EntriesRegistered ==
    Done =>
        /\ \A s \in StepObjs :
              \A t \in Elems(incoming_objs[s]) \cup Elems(outgoing_objs[s]) :
                  /\ s \in RegSteps
                  /\ t \in TransObjs
                  /\ DictGet(transitions, TransId(t)) = t
        /\ \A t \in TransObjs :
              \A s \in Elems(from_steps_objs[t]) \cup Elems(to_steps_objs[t]) :
                  /\ t \in RegTrans
                  /\ s \in StepObjs
                  /\ DictGet(steps, StepId(s)) = s

\* a constructed graph with two Transition elements of one ID, the
\* registered one of which is wired to a Step
C2_Witness ==
    /\ Done
    /\ \E a, b \in TransObjs :
          /\ a < b
          /\ TransId(a) = TransId(b)
          /\ \E s \in StepObjs : b \in Elems(outgoing_objs[s])

StepInts(list) == [i \in DOMAIN list |-> IntOf(StepId(list[i]))]
TransInts(list) == [i \in DOMAIN list |-> IntOf(TransId(list[i]))]

StrictlyAscending(ints) == \A i \in 1..(Len(ints) - 1) : ints[i] < ints[i + 1]
Ascending(ints) == \A i \in 1..(Len(ints) - 1) : ints[i] <= ints[i + 1]
NoRepeat(list) == \A i, j \in DOMAIN list : i # j => list[i] # list[j]

-----------------------------------------------------------------------------
(* Paths of the adjacency maps *)

Succ(A, x) == Elems(AdjGet(A, x))

PassThrough(x) == node_type(x) \in {"branch", "leg"}

\* the Branch/Leg nodes that start reaches over Branch/Leg nodes only
RECURSIVE PassNodes(_, _, _)
PassNodes(start, A, R) ==
    LET N == R \cup {y \in UNION {Succ(A, x) : x \in R \cup {start}} : PassThrough(y)}
    IN  IF N = R THEN R ELSE PassNodes(start, A, N)

\* A has a path from s to t whose intermediate nodes are all Branch or Leg
PathVia(A, s, t) == \E x \in {s} \cup PassNodes(s, A, {}) : t \in Succ(A, x)

\* the nodes that start reaches over paths none of whose intermediate
\* nodes is the ID of a Transition
RECURSIVE ReachAvoiding(_, _, _)
ReachAvoiding(start, A, R) ==
    LET N == R \cup UNION {Succ(A, x) :
                              x \in {start} \cup {y \in R : ~DictHas(transitions, y)}}
    IN  IF N = R THEN R ELSE ReachAvoiding(start, A, N)

\* C4 as stated: for every Step s and Transition t, t is in s.outgoing
\* exactly when the forward adjacency has a path from s to t over Branch/Leg
\* nodes only, and in s.incoming exactly when the reverse adjacency has one.
C4_PathCharacterisation ==
    Done =>
        \A s \in RegSteps, t \in RegTrans :
            /\ t \in Elems(outgoing_objs[s]) <=> PathVia(adj, StepId(s), TransId(t))
            /\ t \in Elems(incoming_objs[s]) <=> PathVia(radj, StepId(s), TransId(t))

\* C4 amended: the same for every Step s and every Transition t whose ID is
\* not also the ID of a registered Step (node_type takes a shared ID for a
\* Step, so the traversal never records it).
C4_PathCharacterisationByKind ==
    Done =>
        \A s \in RegSteps, t \in RegTrans :
            ~DictHas(steps, TransId(t)) =>
                /\ t \in Elems(outgoing_objs[s]) <=> PathVia(adj, StepId(s), TransId(t))
                /\ t \in Elems(incoming_objs[s]) <=> PathVia(radj, StepId(s), TransId(t))

\* a constructed graph where a Step is linked to a diverge Branch with two
\* Legs, each Leg is linked to a Transition of its own, and both Transitions
\* are outgoing Transitions of the Step
C4_Witness ==
    /\ Done
    /\ \E s \in RegSteps, b \in DOMAIN branches, t1, t2 \in RegTrans :
          /\ FlowLower(branches[b].v.flow) = DivergeText
          /\ Len(branches[b].v.legs) = 2
          /\ branches[b].k \in Succ(adj, StepId(s))
          /\ TransId(t1) \in Succ(adj, branches[b].v.legs[1])
          /\ TransId(t2) \in Succ(adj, branches[b].v.legs[2])
          /\ t1 # t2
          /\ StepId(s) \notin Succ(radj, TransId(t1)) \cup Succ(radj, TransId(t2))
          /\ outgoing_objs[s] = <<t1, t2>>

\* C5: a Transition that a Step reaches only over paths through another
\* Transition is in neither the Step's outgoing list (forward adjacency) nor
\* its incoming list (reverse adjacency).
C5_ImmediateStop ==
    Done =>
        \A s \in RegSteps, t \in RegTrans :
            /\ TransId(t) \notin ReachAvoiding(StepId(s), adj, {})
                  => t \notin Elems(outgoing_objs[s])
            /\ TransId(t) \notin ReachAvoiding(StepId(s), radj, {})
                  => t \notin Elems(incoming_objs[s])

\* a constructed graph with Step -> T1 -> T2 where T1 is an outgoing
\* Transition of the Step and T2, reachable through T1 only, is not
C5_Witness ==
    /\ Done
    /\ \E s \in RegSteps, t1, t2 \in RegTrans :
          /\ t1 \in Elems(outgoing_objs[s])
          /\ TransId(t2) \in Succ(adj, TransId(t1))
          /\ TransId(t2) \notin ReachAvoiding(StepId(s), adj, {})
          /\ t2 \notin Elems(outgoing_objs[s])

-----------------------------------------------------------------------------
(* The traversal of spec.md 4.3 started at a Transition: Steps are          *)
(* recorded, Branch/Leg nodes are passed through, anything else is skipped *)

RECURSIVE SpecScanFromTransition(_, _, _)
SpecScanFromTransition(nbs, i, T) ==
    IF i > Len(nbs) THEN T
    ELSE LET nb == nbs[i]
         IN  IF nb \in T.seen THEN SpecScanFromTransition(nbs, i + 1, T)
             ELSE LET S == [T EXCEPT !.seen = @ \cup {nb}]
                  IN  IF node_type(nb) = "step"
                      THEN SpecScanFromTransition(nbs, i + 1, [S EXCEPT !.found = @ \cup {nb}])
                      ELSE IF node_type(nb) \in {"branch", "leg"}
                      THEN SpecScanFromTransition(nbs, i + 1, [S EXCEPT !.q = Append(@, nb)])
                      ELSE SpecScanFromTransition(nbs, i + 1, S)

RECURSIVE SpecTraverseFromTransition(_, _)
SpecTraverseFromTransition(T, A) ==
    IF T.q = <<>> THEN T.found
    ELSE SpecTraverseFromTransition(
             SpecScanFromTransition(AdjGet(A, Head(T.q)), 1, [T EXCEPT !.q = Tail(@)]), A)

SpecImmediateSteps(start, A) ==
    SpecTraverseFromTransition([q |-> <<start>>, seen |-> {start}, found |-> {}], A)

StepIdsOf(list) == {StepId(list[i]) : i \in DOMAIN list}

\* C6 as stated: for every Transition t, to_steps is the set of Steps the
\* specified traversal from t finds over the forward adjacency and
\* from_steps the set it finds over the reverse adjacency.
C6_TransitionTraversal ==
    Done =>
        \A t \in RegTrans :
            /\ StepIdsOf(to_steps_objs[t]) = SpecImmediateSteps(TransId(t), adj)
            /\ StepIdsOf(from_steps_objs[t]) = SpecImmediateSteps(TransId(t), radj)


\* C6 amended: the same for every Transition t whose ID is not also the ID
\* of a registered Step.
C6_TransitionTraversalByKind ==
    Done =>
        \A t \in RegTrans :
            ~DictHas(steps, TransId(t)) =>
                /\ StepIdsOf(to_steps_objs[t]) = SpecImmediateSteps(TransId(t), adj)
                /\ StepIdsOf(from_steps_objs[t]) = SpecImmediateSteps(TransId(t), radj)

\* a constructed graph where a Transition reaches a to-Step through a Branch
\* and its Leg, and has a from-Step as well
C6_Witness ==
    /\ Done
    /\ \E t \in RegTrans, s \in RegSteps :
          /\ s \in Elems(to_steps_objs[t])
          /\ StepId(s) \notin Succ(adj, TransId(t))
          /\ from_steps_objs[t] # <<>>

-----------------------------------------------------------------------------
(* Errors and the operand index *)

\* C7 as stated: neither the construction nor a lookup ever raises.
C7_NothingRaises == pc # "raised" /\ ~ret.out.raised

RegistryOf(op) == IF op = "get_step_by_operand" THEN steps ELSE transitions
ElementsOf(op) == IF op = "get_step_by_operand" THEN chart.steps ELSE chart.transitions

\* the operand number of the object o of the registry that op scans
OperandNumber(op, o) == IntOperand(ElementsOf(op)[o].Operand)

\* C8: a lookup called with the integer n that is the operand number of some
\* registered node of its kind returns a node whose operand number is n.
C8_OperandRoundTrip ==
    (/\ ret.op # "none"
     /\ ret.arg.t = "int"
     /\ \E o \in Registered(RegistryOf(ret.op)) : OperandNumber(ret.op, o) = {ret.arg.i})
        => /\ ~ret.out.raised
           /\ ret.out.result \in Registered(RegistryOf(ret.op))
           /\ OperandNumber(ret.op, ret.out.result) = {ret.arg.i}

\* get_step_by_operand(8) has returned a Step although the first registered
\* Step has another operand number
C8_Witness ==
    /\ ret.op = "get_step_by_operand"
    /\ ret.arg = IntArg(8)
    /\ Len(steps) = 2
    /\ ret.out.result = steps[2].v
    /\ OperandNumber(ret.op, steps[1].v) # {8}

\* the places of the registry whose node has operand number n
Matches(op, n) ==
    {i \in DOMAIN RegistryOf(op) : OperandNumber(op, RegistryOf(op)[i].v) = {n}}

\* C9: a lookup whose argument is the integer n or a decimal string of n
\* returns the first node in registry order whose operand number is n, and
\* None when there is none (a node without operand number never matches);
\* the call with a decimal string returns what the call with n returns.
C9_FirstMatch ==
    (ret.op # "none" /\ PyInt(ret.arg) # {}) =>
        LET n == CHOOSE v \in PyInt(ret.arg) : TRUE
            M == Matches(ret.op, n)
        IN  /\ ~ret.out.raised
            /\ IF M = {} THEN ret.out.result = NoObj
               ELSE /\ ret.out.result = RegistryOf(ret.op)[CHOOSE i \in M : \A j \in M : i <= j].v
                    /\ ElementsOf(ret.op)[ret.out.result].Operand # None
            /\ ret.arg.t = "str" =>
                  ret.out = IF ret.op = "get_step_by_operand"
                            THEN get_step_by_operand(IntArg(n))
                            ELSE get_transition_by_operand(IntArg(n))

\* get_transition_by_operand("8") has returned the first of two Transitions
\* with operand number 8, the labels of which differ
C9_Witness ==
    /\ ret.op = "get_transition_by_operand"
    /\ ret.arg = StrArg(<<"8">>)
    /\ Len(transitions) = 2
    /\ ret.out.result = transitions[1].v
    /\ OperandNumber(ret.op, transitions[2].v) = {8}
    /\ chart.transitions[1].Operand # chart.transitions[2].Operand

RECURSIVE Pow10(_)
Pow10(k) == IF k = 0 THEN 1 ELSE 10 * Pow10(k - 1)

\* the decimal value of the digits op[i..j]
RECURSIVE RunValue(_, _, _)
RunValue(op, i, j) ==
    IF i > j THEN 0 ELSE DigitVal(op[i]) * Pow10(j - i) + RunValue(op, i + 1, j)

\* the value of the first contiguous run of decimal digits of the label,
\* absent for a missing label and for a label without digit
FirstRunValue(op) ==
    IF op = None \/ \A k \in DOMAIN op : op[k] \notin DigitChars THEN {}
    ELSE LET i == CHOOSE k \in DOMAIN op :
                      /\ op[k] \in DigitChars
                      /\ \A u \in 1..(k - 1) : op[u] \notin DigitChars
             j == CHOOSE k \in i..Len(op) :
                      /\ \A u \in i..k : op[u] \in DigitChars
                      /\ (k = Len(op) \/ op[k + 1] \notin DigitChars)
         IN  {RunValue(op, i, j)}

\* C10: the operand number of every Step and Transition is the integer value
\* of the first contiguous run of decimal digits of its operand label, and is
\* absent when the label is missing or has no digit.
C10_OperandNumber ==
    /\ \A o \in StepObjs :
          IntOperand(chart.steps[o].Operand) = FirstRunValue(chart.steps[o].Operand)
    /\ \A o \in TransObjs :
          IntOperand(chart.transitions[o].Operand)
              = FirstRunValue(chart.transitions[o].Operand)

\* a lookup by 8 has returned a node whose label has two digit runs, the
\* first with leading zero and value 8, the second with another value
C10_Witness ==
    /\ ret.op # "none"
    /\ ret.arg = IntArg(8)
    /\ ret.out.result # NoObj
    /\ ElementsOf(ret.op)[ret.out.result].Operand = <<"8", "S", "0">>

-----------------------------------------------------------------------------
(* Presets *)

\* SFC.__init__ has returned
Constructed == (pc = "done" /\ ~program_tags.given) \/ pc = "loaded"

\* the preset the tag source holds for an operand label: the integer value
\* of the PRE member of the tag of that name, absent when there is no tag
\* source, no label, no such tag, no PRE member, no Value or no integer in it
TagPreset(operand) ==
    IF ~program_tags.given \/ operand = None THEN {}
    ELSE LET t == FindTag(program_tags.tags, operand)
             m == IF t = 0 THEN 0 ELSE FindPre(program_tags.tags[t].members)
         IN  IF m = 0 THEN {}
             ELSE IF program_tags.tags[t].members[m].Value = None THEN {}
             ELSE PyIntSigned(program_tags.tags[t].members[m].Value)

\* C11 as stated: the construction with or without a tag source raises no
\* error, and after it the preset of every Step is the integer value of the
\* PRE member of the tag named exactly like the Step's operand label, and
\* absent when one of tag source, label, tag, member, Value, integer is missing.
C11_PresetLoading ==
    /\ pc # "raised"
    /\ Constructed => \A s \in RegSteps : preset[s] = TagPreset(chart.steps[s].Operand)

\* C12: the step from the built graph to the loaded one (the Preset Loader
\* pass) leaves the chart with its DirectedLinks, the three registries, the
\* Leg->Branch map, the adjacency maps and all four relation lists as they
\* are, so the loaded graph has the relations of the graph built without a
\* tag source.
C12_OnlyPresetChanges ==
    [][pc = "done" =>
          UNCHANGED <<chart, steps, transitions, branches, leg_to_branch, adj, radj,
                      incoming_objs, outgoing_objs, from_steps_objs, to_steps_objs>>]_vars

\* a graph after the Preset Loader pass in which a Step has got a preset
\* and a Step has two outgoing Transitions
C12_Witness ==
    /\ pc = "loaded"
    /\ \E s \in RegSteps : preset[s] # {}
    /\ \E s \in RegSteps : Len(outgoing_objs[s]) = 2

\* C13 as stated: the preset of every Step is absent or a non-negative integer.
C13_PresetNonNegative ==
    \A s \in StepObjs : \A n \in preset[s] : n >= 0

-----------------------------------------------------------------------------
(* Action grouping and text *)

\* the lines with a newline character between each two of them
RECURSIVE NewlineJoined(_)
NewlineJoined(lines) ==
    IF lines = <<>> THEN <<>>
    ELSE IF Len(lines) = 1 THEN lines[1]
    ELSE NewlineJoined(SubSeq(lines, 1, Len(lines) - 1)) \o <<NL>> \o lines[Len(lines)]

\* the groups of the returned grouping that hold the Step object s
GroupsOf(s) == {g \in DOMAIN view.groups : s \in Elems(view.groups[g].v)}

\* C14: in a grouping that SFC.actions returns, a Step of the graph is in
\* some group exactly when its action text is not empty, it is in one group
\* only and once, the key of that group is the newline-joined text of the
\* Step's own action lines, and no two groups share a Step.
C14_ActionPartition ==
    (view.op = "actions" /\ ~view.raised) =>
        /\ \A g \in DOMAIN view.groups :
              /\ Elems(view.groups[g].v) \subseteq RegSteps
              /\ NoRepeat(view.groups[g].v)
        /\ \A s \in RegSteps :
              /\ GroupsOf(s) # {} <=> NewlineJoined(st(s)) # <<>>
              /\ Cardinality(GroupsOf(s)) <= 1
              /\ \A g \in GroupsOf(s) : view.groups[g].k = NewlineJoined(st(s))
        /\ \A g, h \in DOMAIN view.groups :
              g # h => Elems(view.groups[g].v) \cap Elems(view.groups[h].v) = {}

\* SFC.actions has returned one group of two lines that holds two Steps
\* whose Action elements differ
C14_Witness ==
    /\ view.op = "actions"
    /\ ~view.raised
    /\ \E g \in DOMAIN view.groups :
          /\ view.groups[g].k = <<"a", NL, "b">>
          /\ Len(view.groups[g].v) = 2
          /\ chart.steps[view.groups[g].v[1]].Action
                # chart.steps[view.groups[g].v[2]].Action

\* the ID is a digit string
NumericId(id) == id # None /\ id # <<>> /\ IsDigits(id)

\* C15 as stated: SFC.actions returns a grouping whose groups are in
\* ascending lexicographic order of their action text and in each group of
\* which the Steps with numeric ID come first, in ascending order of the
\* ID's value, and the Steps whose ID is not a digit string after them.
C15_GroupOrder ==
    view.op = "actions" =>
        /\ ~view.raised
        /\ \A g \in 1..(Len(view.groups) - 1) :
              StrLess(view.groups[g].k, view.groups[g + 1].k)
        /\ \A g \in DOMAIN view.groups :
              \A i, j \in DOMAIN view.groups[g].v :
                  i < j =>
                      LET a == StepId(view.groups[g].v[i])
                          b == StepId(view.groups[g].v[j])
                      IN  /\ NumericId(b) => NumericId(a)
                          /\ NumericId(b) => IntOf(a) <= IntOf(b)

\* C16 as stated: the condition of a Transition is a list, never None, of
\* non-empty lines, and the actions of a Step are a list of non-empty lines.
C16_TextIsList ==
    /\ view.op = "condition" =>
          /\ ~view.none
          /\ \A i \in DOMAIN view.lines : view.lines[i] # <<>>
    /\ view.op = "st" => \A i \in DOMAIN view.lines : view.lines[i] # <<>>

-----------------------------------------------------------------------------
(* Scenarios of spec.md 8 *)

IdsOfTrans(list) == [i \in DOMAIN list |-> TransId(list[i])]
IdsOfSteps(list) == [i \in DOMAIN list |-> StepId(list[i])]

\* C17: for the chain Step 0 -> Transition 39 -> Step 2 -> Transition 40
\* given by DirectedLinks, the constructed graph has step0.outgoing = [39],
\* transition39.from_steps = [0], transition39.to_steps = [2],
\* step2.incoming = [39] and step2.outgoing = [40]; Transition 40 is not in
\* step0.outgoing.
C17_LinearChain ==
    (chart \in ChainCharts /\ Done) =>
        LET step0 == DictGet(steps, id0)
            step2 == DictGet(steps, id2)
            transition39 == DictGet(transitions, id39)
            transition40 == DictGet(transitions, id40)
        IN  /\ IdsOfTrans(outgoing_objs[step0]) = <<id39>>
            /\ IdsOfSteps(from_steps_objs[transition39]) = <<id0>>
            /\ IdsOfSteps(to_steps_objs[transition39]) = <<id2>>
            /\ IdsOfTrans(incoming_objs[step2]) = <<id39>>
            /\ IdsOfTrans(outgoing_objs[step2]) = <<id40>>
            /\ transition40 \notin Elems(outgoing_objs[step0])

\* the chain constructed from a document that lists Step 2 before Step 0,
\* Transition 40 before Transition 39 and the last link first
C17_Witness ==
    /\ chart \in ChainCharts
    /\ Done
    /\ StepId(1) = id2
    /\ TransId(1) = id40
    /\ chart.links[1] = LinkEl(id2, id40)
    /\ Len(from_steps_objs[2]) = 1

\* C18: in the branch diverge scenario the forward traversal from
\* Transition 39 goes over Branch 61 and its Legs 62 and 63 (39 is linked to
\* neither 47 nor 48 itself) and finds exactly the Transitions 47 and 48,
\* and no relation list of Transition 47 or 48 ever holds Transition 39.
C18_BranchDiverge ==
    (chart \in DivergeCharts /\ pc \in {"resolve", "done"}) =>
        /\ Succ(adj, id39) = {id61}
        /\ node_type(id61) = "branch"
        /\ Succ(adj, id61) = {id62, id63}
        /\ node_type(id62) = "leg" /\ node_type(id63) = "leg"
        /\ find_immediate_transitions(id39, TRUE) = {id47, id48}
        /\ \A t \in {DictGet(transitions, id47), DictGet(transitions, id48)} :
              \A s \in Elems(from_steps_objs[t]) \cup Elems(to_steps_objs[t]) :
                  s \in RegSteps /\ StepId(s) # id39

\* the scenario constructed with Step 1 before Transition 39 and behind
\* Transition 47: Step 1 has 39 as its only outgoing Transition
C18_Witness ==
    /\ chart \in DivergeCharts
    /\ Done
    /\ IdsOfTrans(outgoing_objs[1]) = <<id39>>
    /\ IdsOfTrans(incoming_objs[1]) = <<id47>>
    /\ find_immediate_transitions(id39, TRUE) = {id47, id48}

-----------------------------------------------------------------------------
(* Registration *)

NoIdSteps == {o \in StepObjs : StepId(o) = None}
NoIdTrans == {o \in TransObjs : TransId(o) = None}

\* the Step objects in some list of a Transition, and the other way round
ListedSteps == UNION {Elems(from_steps_objs[t]) \cup Elems(to_steps_objs[t]) : t \in TransObjs}
ListedTrans == UNION {Elems(incoming_objs[s]) \cup Elems(outgoing_objs[s]) : s \in StepObjs}

\* nothing but missing IDs is wrong with the chart: the IDs that Step and
\* Transition elements have are digit strings
IdsNumeric ==
    /\ \A o \in StepObjs : StepId(o) = None \/ NumericId(StepId(o))
    /\ \A o \in TransObjs : TransId(o) = None \/ NumericId(TransId(o))

\* C19: a Step, Transition or Branch element without ID is in no registry,
\* a Leg without ID is in no Branch's legs and not in the Leg->Branch map, no
\* adjacency entry and no relation list refers to such an element, its own
\* relation lists stay empty, and the construction of a chart with such
\* elements raises no error.
C19_NoIdDropped ==
    /\ IdsNumeric => pc # "raised"
    /\ None \notin DictKeys(steps) \cup DictKeys(transitions) \cup DictKeys(branches)
                       \cup DictKeys(leg_to_branch)
    /\ NoIdSteps \cap RegSteps = {}
    /\ NoIdTrans \cap RegTrans = {}
    /\ \A b \in DOMAIN branches :
          /\ branches[b].v.id # None
          /\ None \notin Elems(branches[b].v.legs)
    /\ Cardinality(DictKeys(branches))
          <= Cardinality({i \in DOMAIN chart.branches : chart.branches[i].ID # None})
    /\ \A l \in DOMAIN leg_to_branch : leg_to_branch[l].v # None
    /\ None \notin DOMAIN adj \cup DOMAIN radj
    /\ \A x \in DOMAIN adj : None \notin Elems(adj[x])
    /\ \A x \in DOMAIN radj : None \notin Elems(radj[x])
    /\ NoIdSteps \cap ListedSteps = {}
    /\ NoIdTrans \cap ListedTrans = {}
    /\ \A o \in NoIdSteps : incoming_objs[o] = <<>> /\ outgoing_objs[o] = <<>>
    /\ \A o \in NoIdTrans : from_steps_objs[o] = <<>> /\ to_steps_objs[o] = <<>>

\* a constructed graph of a chart that has a Step, a Transition, a Branch
\* and a Leg of a registered Branch without ID, and a Step wired to a
\* Transition over that Branch
C19_Witness ==
    /\ Done
    /\ NoIdSteps # {}
    /\ NoIdTrans # {}
    /\ \E i \in DOMAIN chart.branches : chart.branches[i].ID = None
    /\ \E i \in DOMAIN chart.branches :
          /\ chart.branches[i].ID # None
          /\ None \in Elems(chart.branches[i].legs)
    /\ \E o \in RegSteps : outgoing_objs[o] # <<>> /\ incoming_objs[o] # <<>>

\* the IDs that the elements carry
IdsIn(els) == {els[o].ID : o \in DOMAIN els} \ {None}

\* the last element in document order that carries the ID
LastWithId(els, id) ==
    CHOOSE o \in DOMAIN els :
        els[o].ID = id /\ \A u \in DOMAIN els : els[u].ID = id => u <= o

EntriesFor(d, id) == {i \in DOMAIN d : d[i].k = id}

\* C20: for every ID that elements of a kind carry, the registry of the
\* kind has exactly one entry, which is the node of the last element with
\* that ID in document order (for a Branch: its Legs and its BranchFlow);
\* get_step and get_transition called with the ID return that node, and
\* every entry of a relation list is the node of the last element with its ID.
C20_LastWriteWins ==
    /\ pc # "start" =>
          /\ \A id \in IdsIn(chart.steps) :
                /\ Cardinality(EntriesFor(steps, id)) = 1
                /\ DictGet(steps, id) = LastWithId(chart.steps, id)
          /\ \A id \in IdsIn(chart.transitions) :
                /\ Cardinality(EntriesFor(transitions, id)) = 1
                /\ DictGet(transitions, id) = LastWithId(chart.transitions, id)
          /\ \A id \in IdsIn(chart.branches) :
                /\ Cardinality(EntriesFor(branches, id)) = 1
                /\ LET e == chart.branches[LastWithId(chart.branches, id)]
                       b == branches[CHOOSE i \in EntriesFor(branches, id) : TRUE].v
                   IN  /\ b.flow = e.BranchFlow
                       /\ b.legs = SelectSeq(e.legs, LAMBDA l : l # None /\ l # <<>>)
    /\ \A s \in ListedSteps : s = LastWithId(chart.steps, StepId(s))
    /\ \A t \in ListedTrans : t = LastWithId(chart.transitions, TransId(t))
    /\ (ret.op = "get_step" /\ ret.arg.t = "str" /\ ret.arg.s \in IdsIn(chart.steps))
          => ret.out.result = LastWithId(chart.steps, ret.arg.s)
    /\ (ret.op = "get_transition" /\ ret.arg.t = "str"
           /\ ret.arg.s \in IdsIn(chart.transitions))
          => ret.out.result = LastWithId(chart.transitions, ret.arg.s)

\* get_step("1") has returned the third Step element of a chart whose first
\* Step element has the ID "1" as well and that has two Branch elements of
\* one ID; the returned Step has an outgoing Transition
C20_Witness ==
    /\ ret.op = "get_step"
    /\ ret.arg.t = "str"
    /\ ret.arg.s = id1
    /\ Len(chart.steps) = 3
    /\ StepId(1) = id1
    /\ ret.out.result = 3
    /\ outgoing_objs[3] # <<>>
    /\ Len(chart.branches) = 2
    /\ Len(branches) = 1

\* C21: every Leg ID that a registered Branch lists is listed by that Branch
\* alone, and the Leg -> Branch map sends it to that Branch.
C21_LegInOneBranch ==
    pc # "start" =>
        \A i \in DOMAIN branches :
            \A l \in Elems(branches[i].v.legs) :
                /\ \A k \in DOMAIN branches :
                       l \in Elems(branches[k].v.legs) => k = i
                /\ DictHas(leg_to_branch, l)
                /\ leg_to_branch[DictIdx(leg_to_branch, l)].v = branches[i].k

-----------------------------------------------------------------------------
(* Properties of the tags created from a sheet *)

\* the call got as far as reading the sheet
SheetRead == xlsx.pandas /\ tags_element.present

\* C22: a call that reads a sheet lacking one of the columns Name, TagType,
\* AliasFor, DataType ends by raising ValueError "missing required columns"
\* and leaves the tags element as it was, whatever rows the sheet holds.
C22_ColumnsCheckedFirst ==
    [][(SheetRead /\ required_columns \ xlsx.columns # {})
          => /\ excel'.pc = "raised"
             /\ excel'.err = Error("ValueError", 0, "missing required columns")
             /\ tags_element' = tags_element]_vars

\* a call has raised for a sheet that lacks the column AliasFor alone and
\* whose first row would create the Base tag B; the tags element holds the
\* tag it held before and no other
C22_Witness ==
    /\ excel.pc = "raised"
    /\ excel.err.msg = "missing required columns"
    /\ xlsx.columns = required_columns \ {"AliasFor"}
    /\ Len(xlsx.rows) = MaxRows
    /\ xlsx.rows[1] = RowEl(<<"B">>, Base, NaN, DINT)
    /\ tags_element.tags = <<BaseTag(<<"Z">>, DINT)>>

-----------------------------------------------------------------------------
(* Properties of one traversal *)

\* the traversal that was followed has emptied its queue
Finished == trav.active /\ trav.q = <<>>

\* the nodes that start reaches over paths none of whose intermediate nodes
\* is the ID of a Step
RECURSIVE ReachAvoidingSteps(_, _, _)
ReachAvoidingSteps(start, A, R) ==
    LET N == R \cup UNION {Succ(A, x) :
                              x \in {start} \cup {y \in R : ~DictHas(steps, y)}}
    IN  IF N = R THEN R ELSE ReachAvoidingSteps(start, A, N)

\* the list that the traversal from Step object s in the direction fills
ListOf(s, forward) == IF forward THEN outgoing_objs[s] ELSE incoming_objs[s]

\* C23: a traversal from a Step puts no other Step in its queue and records
\* no Step; what it has recorded when it ends is what the start Step's
\* outgoing (reverse: incoming) list holds after construction; and a
\* Transition that the start Step reaches over the forward (reverse)
\* adjacency only through another Step is not in its outgoing (incoming) list.
C23_NoStepThrough ==
    /\ \A i \in 2..Len(trav.enq) : ~DictHas(steps, trav.enq[i])
    /\ trav.found \cap DictKeys(steps) = {}
    /\ (Done /\ Finished) =>
          trav.found = {TransId(t) :
                           t \in Elems(ListOf(DictGet(steps, trav.start), trav.forward))}
    /\ Done =>
          \A s \in RegSteps, t \in RegTrans :
              /\ TransId(t) \notin ReachAvoidingSteps(StepId(s), adj, {})
                    => t \notin Elems(outgoing_objs[s])
              /\ TransId(t) \notin ReachAvoidingSteps(StepId(s), radj, {})
                    => t \notin Elems(incoming_objs[s])

\* S1 -> S2 -> T4 and S1 -> Branch 5: the forward traversal from Step 1 has
\* ended having queued the Branch and its Legs and not Step 2; Transition 4
\* is an outgoing Transition of Step 2 and not of Step 1
C23_Witness ==
    /\ Done
    /\ Finished
    /\ trav.start = id1
    /\ trav.forward
    /\ id2 \in Succ(adj, id1)
    /\ id4 \in Succ(adj, id2)
    /\ id2 \in trav.seen
    /\ Len(trav.enq) = 4
    /\ outgoing_objs[1] = <<>>
    /\ TransId(outgoing_objs[2][1]) = id4

-----------------------------------------------------------------------------
(* Properties of the adjacency maps *)

\* _build_relations has just filled adj and radj, which nothing changes
\* afterwards
Built == pc = "resolve" /\ si = 0

Count(list, x) == Cardinality({i \in DOMAIN list : list[i] = x})

\* every ID that a link end, a Branch or a Leg of the chart carries or that
\* is a key or an entry of an adjacency map
NodeIds ==
    {chart.links[i].FromID : i \in DOMAIN chart.links}
        \cup {chart.links[i].ToID : i \in DOMAIN chart.links}
        \cup DictKeys(branches) \cup DictKeys(leg_to_branch)
        \cup DOMAIN adj \cup DOMAIN radj
        \cup UNION {Elems(adj[x]) : x \in DOMAIN adj}
        \cup UNION {Elems(radj[x]) : x \in DOMAIN radj}

\* the number of DirectedLink elements from x to y
LinkCount(x, y) ==
    Cardinality({i \in DOMAIN chart.links :
                    chart.links[i].FromID = x /\ chart.links[i].ToID = y})

\* the entries y under x that do not come from a DirectedLink
StructCount(A, x, y) == Count(AdjGet(A, x), y) - LinkCount(x, y)
StructCountRev(A, x, y) == Count(AdjGet(A, x), y) - LinkCount(y, x)

UpperChar(c) ==
    CASE c = "d" -> "D" [] c = "i" -> "I" [] c = "v" -> "V" [] c = "e" -> "E"
      [] c = "r" -> "R" [] c = "g" -> "G"
      [] OTHER -> c

\* the BranchFlow equals 'diverge' ignoring letter case
IsDiverge(f) ==
    [i \in DOMAIN FlowChars(f) |-> UpperChar(FlowChars(f)[i])]
        = <<"D", "I", "V", "E", "R", "G", "E">>

\* the edges from x to y that the first i registered Branches stand for:
\* Branch -> Leg once per Leg of a Branch whose BranchFlow is 'diverge' in
\* any letter case, Leg -> Branch once per Leg of every other Branch
RECURSIVE BranchEdgeCount(_, _, _)
BranchEdgeCount(i, x, y) ==
    IF i = 0 THEN 0
    ELSE BranchEdgeCount(i - 1, x, y)
         + (IF IsDiverge(branches[i].v.flow)
            THEN (IF branches[i].k = x THEN Count(branches[i].v.legs, y) ELSE 0)
            ELSE (IF branches[i].k = y THEN Count(branches[i].v.legs, x) ELSE 0))

\* C24: besides the entries of DirectedLinks, the forward adjacency holds y
\* under x once for every Leg y of a registered Branch x whose BranchFlow is
\* 'diverge' in any letter case and once for every Leg x of a registered
\* Branch y with any other BranchFlow (converge, absent, empty, other text),
\* and nothing else; the reverse adjacency holds the same edges reversed.
C24_BranchEdgesFollowFlow ==
    Built =>
        \A x, y \in NodeIds \ {None} :
            /\ StructCount(adj, x, y) = BranchEdgeCount(Len(branches), x, y)
            /\ StructCountRev(radj, y, x) = BranchEdgeCount(Len(branches), x, y)

\* the adjacency maps are built for a Branch 5 with BranchFlow "DIVERGE" and
\* Legs 6 and 7 that a DirectedLink 6 -> 5 points back to: 5 -> 6 and 5 -> 7
\* are forward entries, 6 -> 5 is the entry of the link
C24_Witness ==
    /\ Built
    /\ Len(branches) = 1
    /\ branches[1].v.flow = "DIVERGE"
    /\ branches[1].v.legs = <<id6, id7>>
    /\ AdjGet(adj, id5) = <<id6, id7>>
    /\ AdjGet(adj, id6) = <<id5>>
    /\ AdjGet(radj, id5) = <<id6>>

\* a chart whose Branch has the BranchFlow "Divergent": the Legs point to
\* the Branch
C24_WitnessOther ==
    /\ Built
    /\ Len(branches) = 1
    /\ branches[1].v.flow = "Divergent"
    /\ AdjGet(adj, id6) = <<id5>>
    /\ AdjGet(radj, id5) = <<id6, id7>>

RECURSIVE TotalLen(_, _)
TotalLen(A, keys) ==
    IF keys = {} THEN 0
    ELSE LET k == CHOOSE k \in keys : TRUE
         IN  Len(A[k]) + TotalLen(A, keys \ {k})

RECURSIVE LegTotal(_)
LegTotal(i) == IF i = 0 THEN 0 ELSE Len(branches[i].v.legs) + LegTotal(i - 1)

CompleteLinks ==
    {i \in DOMAIN chart.links :
        chart.links[i].FromID # None /\ chart.links[i].ToID # None}

\* C25: every DirectedLink with FromID and ToID is one entry ToID under
\* FromID of the forward adjacency and one entry FromID under ToID of the
\* reverse adjacency; a DirectedLink without FromID or ToID is no entry (the
\* maps hold as many entries as there are complete links and Legs of
\* registered Branches, and never the absent ID); and the reverse adjacency
\* holds x under y exactly as often as the forward adjacency holds y under x.
C25_LinksAndTranspose ==
    Built =>
        /\ \A x, y \in NodeIds \ {None} :
              /\ Count(AdjGet(adj, x), y) >= LinkCount(x, y)
              /\ Count(AdjGet(radj, y), x) = Count(AdjGet(adj, x), y)
        /\ TotalLen(adj, DOMAIN adj) = Cardinality(CompleteLinks) + LegTotal(Len(branches))
        /\ TotalLen(radj, DOMAIN radj) = TotalLen(adj, DOMAIN adj)
        /\ None \notin DOMAIN adj \cup DOMAIN radj
        /\ \A x \in DOMAIN adj : None \notin Elems(adj[x])
        /\ \A x \in DOMAIN radj : None \notin Elems(radj[x])

\* the maps are built for a chart with a link that lacks its FromID, a link
\* that lacks its ToID and complete links, which are the only entries
C25_Witness ==
    /\ Built
    /\ \E i \in DOMAIN chart.links :
          chart.links[i].FromID = None /\ chart.links[i].ToID # None
    /\ \E i \in DOMAIN chart.links :
          chart.links[i].FromID # None /\ chart.links[i].ToID = None
    /\ Cardinality(CompleteLinks) >= 2
    /\ TotalLen(adj, DOMAIN adj) = Cardinality(CompleteLinks)

\* the registries decide what a traversal does with an ID: it records the
\* ID of a Transition that is not the ID of a Step, and passes through the
\* ID of a Branch or Leg that is the ID of neither a Step nor a Transition
IsRecorded(x) == x \in DictKeys(transitions) \ DictKeys(steps)
IsPassed(x) ==
    x \in (DictKeys(branches) \cup DictKeys(leg_to_branch))
            \ (DictKeys(steps) \cup DictKeys(transitions))
Unregistered(x) ==
    x \notin DictKeys(steps) \cup DictKeys(transitions)
               \cup DictKeys(branches) \cup DictKeys(leg_to_branch)

\* the IDs that start reaches over passed IDs only
RECURSIVE PassedFrom(_, _, _)
PassedFrom(start, A, R) ==
    LET N == R \cup {y \in UNION {Succ(A, x) : x \in R \cup {start}} : IsPassed(y)}
    IN  IF N = R THEN R ELSE PassedFrom(start, A, N)

RecordedFrom(start, A) ==
    {y \in UNION {Succ(A, x) : x \in {start} \cup PassedFrom(start, A, {})} :
        IsRecorded(y)}

\* C26: a traversal treats an ID by the first registry that holds it, in the
\* order Step, Transition, Branch, Leg: it queues only IDs of Branches and
\* Legs that are IDs of neither Steps nor Transitions, records only IDs of
\* Transitions that are not IDs of Steps, and an ID it has seen and neither
\* queued nor recorded is the ID of a Step or of no element.  An unregistered
\* ID is never queued or recorded, so the relation lists hold exactly the
\* Transitions reached over passed IDs only.
C26_KindDecidesTraversal ==
    /\ \A i \in 2..Len(trav.enq) : IsPassed(trav.enq[i])
    /\ \A x \in trav.found : IsRecorded(x)
    /\ \A x \in trav.seen \ {trav.start} :
          /\ IsRecorded(x) => x \in trav.found
          /\ IsPassed(x) => x \in Elems(trav.enq)
          /\ Unregistered(x) => x \notin trav.found /\ x \notin Elems(trav.enq)
    /\ Finished =>
          trav.found = RecordedFrom(trav.start, IF trav.forward THEN adj ELSE radj)
    /\ Done =>
          \A s \in RegSteps :
              /\ {TransId(t) : t \in Elems(outgoing_objs[s])} = RecordedFrom(StepId(s), adj)
              /\ {TransId(t) : t \in Elems(incoming_objs[s])} = RecordedFrom(StepId(s), radj)

\* Step 1 -> 9 -> Transition 4 where no element has the ID 9, and Step 1 ->
\* Branch 5: the forward traversal from Step 1 has ended, has seen 9 and
\* queued the Branch and its Legs only; Step 1 has no outgoing Transition
C26_Witness ==
    /\ Done
    /\ Finished
    /\ trav.start = id1
    /\ trav.forward
    /\ id9 \in Succ(adj, id1)
    /\ id4 \in Succ(adj, id9)
    /\ Unregistered(id9)
    /\ id9 \in trav.seen
    /\ trav.enq = <<id1, id5, id6, id7>>
    /\ outgoing_objs[1] = <<>>

\* Step 1 -> 3 where 3 is the ID of a Transition and of a Branch with the
\* Leg 4: the traversal from Step 1 has recorded 3 and not queued it
C26_WitnessShared ==
    /\ Finished
    /\ trav.start = id1
    /\ trav.forward
    /\ id3 \in DictKeys(transitions) \cap DictKeys(branches)
    /\ trav.found = {id3}
    /\ trav.enq = <<id1>>

\* C27: a traversal that has begun reaches the end of its loop (its queue
\* runs empty), also when Branch and Leg nodes form a cycle or link back to
\* the start; no ID is put in the queue twice, the start is in the queue
\* once, at the beginning, and is never recorded.
C27_TraversalTerminates ==
    /\ [](trav.active =>
             /\ \A i, j \in DOMAIN trav.enq : trav.enq[i] = trav.enq[j] => i = j
             /\ trav.enq[1] = trav.start
             /\ trav.start \notin trav.found)
    /\ (trav.active ~> Finished)

\* Step 1 -> Branch 5 (diverge, Legs 6 and 7), Leg 6 -> Branch 5 and Leg 7 ->
\* Step 1: the forward traversal from Step 1 has ended after queueing the
\* start, the Branch and the two Legs once each
C27_Witness ==
    /\ Finished
    /\ trav.start = id1
    /\ trav.forward
    /\ AdjGet(adj, id1) = <<id5>>
    /\ AdjGet(adj, id5) = <<id6, id7>>
    /\ AdjGet(adj, id6) = <<id5>>
    /\ AdjGet(adj, id7) = <<id1>>
    /\ trav.enq = <<id1, id5, id6, id7>>
    /\ trav.found = {}

-----------------------------------------------------------------------------
(* Properties of IDs shared between a Step and a Transition *)

\* the Transition objects whose ID is the ID of a registered Step as well
SharedIdTrans == {t \in RegTrans : DictHas(steps, TransId(t))}

\* C28: a Transition whose ID is also the ID of a registered Step is
\* registered, as is the Step; get_transition and get_step called with that
\* ID return the Transition and the Step; the Transition is in no Step's
\* incoming or outgoing list and its from_steps and to_steps are empty,
\* whatever DirectedLinks name the ID.
C28_SharedIdNeverWired ==
    /\ pc # "start" =>
          \A t \in TransObjs :
              (chart.transitions[t].ID # None
                  /\ chart.transitions[t].ID \in IdsIn(chart.steps))
                 => /\ DictHas(transitions, chart.transitions[t].ID)
                    /\ DictHas(steps, chart.transitions[t].ID)
    /\ \A t \in SharedIdTrans :
          /\ from_steps_objs[t] = <<>>
          /\ to_steps_objs[t] = <<>>
          /\ \A s \in StepObjs :
                t \notin Elems(outgoing_objs[s]) \cup Elems(incoming_objs[s])
          /\ (ret.op = "get_transition" /\ ret.arg.t = "str" /\ ret.arg.s = TransId(t))
                => ret.out = [result |-> t, raised |-> FALSE]
          /\ (ret.op = "get_step" /\ ret.arg.t = "str" /\ ret.arg.s = TransId(t))
                => /\ ~ret.out.raised
                   /\ ret.out.result \in RegSteps
                   /\ StepId(ret.out.result) = TransId(t)

\* Step 1 -> 2 -> Step 1 with 2 the ID of a Step and of a Transition:
\* get_transition("2") has returned the Transition, which has no from_steps
\* and no to_steps, and Step 1 has no Transition
C28_Witness ==
    /\ Done
    /\ ret.op = "get_transition"
    /\ ret.arg.s = id2
    /\ ret.out.result \in SharedIdTrans
    /\ AdjGet(adj, id1) = <<id2>>
    /\ AdjGet(adj, id2) = <<id1>>
    /\ outgoing_objs[DictGet(steps, id1)] = <<>>
    /\ incoming_objs[DictGet(steps, id1)] = <<>>

-----------------------------------------------------------------------------
(* Independence of document order *)

\* every ID of the chart, one entry per element
AllIds ==
    LET B == chart.branches
        RECURSIVE LegsUpTo(_)
        LegsUpTo(i) == IF i = 0 THEN <<>> ELSE LegsUpTo(i - 1) \o B[i].legs
    IN  [i \in DOMAIN chart.steps |-> chart.steps[i].ID]
            \o [i \in DOMAIN chart.transitions |-> chart.transitions[i].ID]
            \o [i \in DOMAIN B |-> B[i].ID] \o LegsUpTo(Len(B))

\* every element has an ID, the IDs are decimal numbers and no two elements
\* have IDs of one integer value
DistinctIntIds ==
    /\ \A i \in DOMAIN AllIds : AllIds[i] # None /\ PyIntStr(AllIds[i]) # {}
    /\ \A i, j \in DOMAIN AllIds :
          IntOf(AllIds[i]) = IntOf(AllIds[j]) => i = j

\* the chart as sets: the edges that the links and the Branches stand for
\* and the IDs of Branches and Legs
EdgeSet ==
    {<<chart.links[i].FromID, chart.links[i].ToID>> : i \in CompleteLinks}
        \cup UNION {{IF IsDiverge(b.BranchFlow) THEN <<b.ID, l>> ELSE <<l, b.ID>> :
                        l \in Elems(b.legs)} : b \in Elems(chart.branches)}
PassSet ==
    {b.ID : b \in Elems(chart.branches)}
        \cup UNION {Elems(b.legs) : b \in Elems(chart.branches)}

Reverse(E) == {<<e[2], e[1]>> : e \in E}

\* the IDs of PassSet that start reaches in E over IDs of PassSet only
RECURSIVE ReachedPass(_, _, _)
ReachedPass(start, E, R) ==
    LET N == R \cup {e[2] : e \in {d \in E : d[1] \in R \cup {start} /\ d[2] \in PassSet}}
    IN  IF N = R THEN R ELSE ReachedPass(start, E, N)

\* the Transition objects next to Step object s in E
NextTrans(s, E) ==
    {t \in TransObjs :
        \E x \in {StepId(s)} \cup ReachedPass(StepId(s), E, {}) :
            <<x, TransId(t)>> \in E}

\* the objects of a set in ascending order of the integer value of their ID
AscendingSeq(objs, IdOf(_)) ==
    CHOOSE p \in PermSeqs(objs) :
        \A i \in 1..(Len(p) - 1) : IntOf(IdOf(p[i])) < IntOf(IdOf(p[i + 1]))

\* C29: for a chart whose IDs have pairwise distinct integer values, every
\* relation list is a function of the set of edges and the sets of node IDs
\* alone (the neighbours over Branch/Leg IDs in ascending order of ID), so
\* charts that differ only in the order of their DirectedLinks, of their
\* Branches or of the Legs in a Branch have the same lists.
C29_OrderIndependent ==
    (Done /\ DistinctIntIds) =>
        /\ \A s \in StepObjs :
              /\ outgoing_objs[s] = AscendingSeq(NextTrans(s, EdgeSet), TransId)
              /\ incoming_objs[s] = AscendingSeq(NextTrans(s, Reverse(EdgeSet)), TransId)
        /\ \A t \in TransObjs :
              /\ from_steps_objs[t]
                    = AscendingSeq({s \in StepObjs : t \in NextTrans(s, EdgeSet)}, StepId)
              /\ to_steps_objs[t]
                    = AscendingSeq({s \in StepObjs : t \in NextTrans(s, Reverse(EdgeSet))},
                                   StepId)

\* a constructed chart with the links 7 -> 4, 6 -> 3, 1 -> 5 in this order,
\* Branch 8 before Branch 5 and the Legs of Branch 5 as 7, 6: Step 1 has the
\* outgoing Transitions 3, 4
C29_Witness ==
    /\ Done
    /\ DistinctIntIds
    /\ chart.links = <<LinkEl(id7, id4), LinkEl(id6, id3), LinkEl(id1, id5)>>
    /\ chart.branches[1].ID = id8
    /\ chart.branches[2].legs = <<id7, id6>>
    /\ outgoing_objs[1] = <<1, 2>>
    /\ from_steps_objs[2] = <<1>>

-----------------------------------------------------------------------------
(* Rows of a sheet *)

\* the tag that a row creates
TagOf(row) ==
    IF Strip(CellStr(row.TagType)) = Alias
    THEN AliasTag(Strip(CellStr(row.Name)), Strip(row.AliasFor))
    ELSE BaseTag(Strip(CellStr(row.Name)), Strip(row.DataType))

NoValue(cell) == cell = NaN \/ Strip(cell) = <<>>

\* a row that the claim calls invalid
InvalidListed(row) ==
    LET tag_type == Strip(CellStr(row.TagType))
    IN  \/ tag_type \notin {Alias, Base}
        \/ tag_type = Alias /\ NoValue(row.AliasFor)
        \/ tag_type = Base /\ (NoValue(row.DataType)
                                  \/ Strip(row.DataType) \notin base_data_types)

\* a row that creates no tag: its Name is blank or it is invalid as above
Invalid(row) == Strip(CellStr(row.Name)) = <<>> \/ InvalidListed(row)

\* a call that reads the sheet, whose row k is the first that bad(row) holds
\* of, raises ValueError naming row k (sheet row k + 1) and leaves the tags
\* element holding the tags it held followed by the tags of the rows before
\* k, in sheet order
StopsAtFirst(bad(_)) ==
    (SheetRead /\ required_columns \subseteq xlsx.columns)
        => \A k \in DOMAIN xlsx.rows :
              (bad(xlsx.rows[k]) /\ \A j \in 1..(k - 1) : ~bad(xlsx.rows[j]))
                 => /\ excel'.pc = "raised"
                    /\ excel'.err.type = "ValueError"
                    /\ excel'.err.row = k + 1
                    /\ tags_element'.tags =
                          tags_element.tags
                             \o [j \in 1..(k - 1) |-> TagOf(xlsx.rows[j])]

====
